---- MODULE Spec2Model ----
(***************************************************************************)
(* TestSyncer: linking accessibility bugs (JIRA) to test cases (TestRail). *)
(* The module models the matching engine (services/aiService.js), the      *)
(* learning store (services/learningService.js) and the pass transition    *)
(* with its open-bug gate (services/workflowService.js).                   *)
(*                                                                         *)
(* Texts are sequences of whitespace-separated tokens over a fixed         *)
(* vocabulary; substring and regular-expression tests of the source are    *)
(* computed token by token from the tables below, which are exact for the  *)
(* vocabulary.  A JavaScript value that may be a number, a string or       *)
(* undefined is a record [v, t] with t in {"num", "str", "undefined"}.     *)
(* A confidence is a rational [n, d] (n/d), compared by cross              *)
(* multiplication.                                                         *)
(***************************************************************************)
EXTENDS Integers, Sequences, FiniteSets, TLC

(***************************************************************************)
(* Bounds of the model.                                                    *)
(***************************************************************************)
MaxCorrections == 2
MaxMatches == 2
MaxReply == 2
MaxResults == 3
MaxTests == 3

(***************************************************************************)
(* Program constants.                                                      *)
(***************************************************************************)
multiMatchThreshold == 75
confidenceThreshold == 70
statusPassed == 1
statusFailed == 5

Range(s) == {s[i] : i \in 1..Len(s)}

RECURSIVE SeqsUpTo(_, _)
SeqsUpTo(S, n) ==
  IF n = 0 THEN {<<>>}
  ELSE LET shorter == SeqsUpTo(S, n - 1)
       IN  shorter \cup {Append(s, e) : s \in {q \in shorter : Len(q) = n - 1}, e \in S}

RECURSIVE SelectSeqIdx(_, _)
\* the increasing sequence of the members of the index set I
SelectSeqIdx(I, n) ==
  IF n = 0 THEN <<>>
  ELSE IF n \in I THEN Append(SelectSeqIdx(I, n - 1), n) ELSE SelectSeqIdx(I, n - 1)

\* the array in the order it is stored
StoredOrder(s) == s

\* Array.prototype.reverse
Reverse(s) == [i \in 1..Len(s) |-> s[Len(s) + 1 - i]]

(***************************************************************************)
(* JavaScript values.                                                      *)
(***************************************************************************)
Num(v) == [v |-> v, t |-> "num"]
Str(v) == [v |-> v, t |-> "str"]
Undefined == [v |-> 0, t |-> "undefined"]

\* !x for a number, numeric string or undefined (0 and "" are not in the domain)
Falsy(x) == x.t = "undefined"

\* x.toString(): the decimal digits, the same for the number 7 and the string "7"
toString(x) == x.v

(***************************************************************************)
(* Texts: vocabulary and the string tests of learningService.js.           *)
(***************************************************************************)
toLowerCase(w) ==
  CASE w = "Focus" -> "focus"
    [] w = "Heading" -> "heading"
    [] w = "Ready for Dev" -> "ready for dev"
    [] w = "REOPENED" -> "reopened"
    [] w = "Done" -> "done"
    [] w = "Focus Visible" -> "focus visible"
    [] w = "Headings" -> "headings"
    [] w = "Uncategorized" -> "uncategorized"
    [] w = "All Tests" -> "all tests"
    [] w = "Section 3" -> "section 3"
    [] w = "Color" -> "color"
    [] w = "Tests" -> "tests"
    [] w = "Test" -> "test"
    [] OTHER -> w

\* word.length for the (lower-cased) vocabulary
WordLength(w) ==
  CASE w \in {"on", "to", "h1", "h3"} -> 2
    [] w \in {"not", "the"} -> 3
    [] w \in {"with", "menu", "page", "from", "link"} -> 4
    [] w \in {"focus", "level", "items", "skips", "title", "label"} -> 5
    [] w \in {"search", "button"} -> 6
    [] w \in {"heading", "missing", "visible"} -> 7
    [] w \in {"provided", "contrast"} -> 8
    [] w \in {"incorrect"} -> 9
    [] OTHER -> 0

stopWords ==
  {"the", "a", "an", "and", "or", "but", "in", "on", "at", "to", "for", "of",
   "with", "is", "are", "was", "were", "be", "been", "being"}

\* lower.includes(s) restricted to one token w of the vocabulary
Includes(w, s) ==
  CASE s = "heading" -> w = "heading"
    [] s = "focus" -> w = "focus"
    [] s = "title" -> w = "title"
    [] s = "missing" -> w = "missing"
    [] s = "label" -> w = "label"
    [] s = "link" -> w = "link"
    [] s = "contrast" -> w = "contrast"
    [] s = "level" -> w = "level"
    [] s = "incorrect" -> w = "incorrect"
    [] s = "provided" -> w = "provided"
    [] s = "not" -> w = "not"
    [] s = "hdigit" -> w \in {"h1", "h3"}
    [] OTHER -> FALSE

Lower(text) == [i \in 1..Len(text) |-> toLowerCase(text[i])]

TextIncludes(lower, s) == \E i \in 1..Len(lower) : Includes(lower[i], s)

\* the regular expression  a\s+b  on a text whose tokens are joined by blanks
Adjacent(lower, a, b) ==
  \E i \in 1..(Len(lower) - 1) : Includes(lower[i], a) /\ Includes(lower[i + 1], b)

\* the regular expression  a.*b
Followed(lower, a, b) ==
  \E i, j \in 1..Len(lower) : i < j /\ Includes(lower[i], a) /\ Includes(lower[j], b)

detectIssueType(text) ==
  LET lower == Lower(text)
  IN  IF TextIncludes(lower, "heading")
      THEN IF \/ Adjacent(lower, "not", "provided")
              \/ TextIncludes(lower, "missing")
              \/ Adjacent(lower, "not", "programmatically")
              \/ Adjacent(lower, "not", "identified")
           THEN "heading-missing"
           ELSE IF \/ Adjacent(lower, "incorrect", "level")
                   \/ Adjacent(lower, "wrong", "level")
                   \/ Adjacent(lower, "heading", "level")
                   \/ Followed(lower, "hdigit", "incorrect")
                   \/ Followed(lower, "level", "incorrect")
                   \/ \E i, j, k \in 1..Len(lower) :
                        /\ i < j /\ j < k
                        /\ Includes(lower[i], "hdigit")
                        /\ Includes(lower[j], "should")
                        /\ Includes(lower[k], "hdigit")
                THEN "heading-level"
                ELSE "heading-generic"
      ELSE IF TextIncludes(lower, "focus") \/ TextIncludes(lower, "keyboard") THEN "focus"
      ELSE IF TextIncludes(lower, "title") THEN "title"
      ELSE IF TextIncludes(lower, "language") \/ TextIncludes(lower, "lang") THEN "language"
      ELSE IF TextIncludes(lower, "form") \/ TextIncludes(lower, "input")
              \/ TextIncludes(lower, "label") THEN "form"
      ELSE IF TextIncludes(lower, "image") \/ TextIncludes(lower, "alt") THEN "image"
      ELSE IF TextIncludes(lower, "table") \/ TextIncludes(lower, "caption") THEN "table"
      ELSE IF TextIncludes(lower, "link") THEN "link"
      ELSE IF TextIncludes(lower, "color") \/ TextIncludes(lower, "contrast") THEN "color"
      ELSE "unknown"

extractKeywords(text) ==
  {w \in Range(Lower(text)) : WordLength(w) > 3 /\ w \notin stopWords}

\* the score intersection.size / union.size as the rational [n, d]; 0 when the union is empty
calculateKeywordMatch(set1, set2) ==
  IF Cardinality(set1 \cup set2) = 0
  THEN [n |-> 0, d |-> 1]
  ELSE [n |-> Cardinality(set1 \cap set2), d |-> Cardinality(set1 \cup set2)]

\* score > p/100
ScoreAbove(score, p) == score.n * 100 > p * score.d

\* base/100 + 0.15 * score
LearnedConfidence(base, score) ==
  [n |-> base * score.d + 15 * score.n, d |-> 100 * score.d]

\* confidence >= p/100
ConfidenceAtLeast(c, p) == c.n * 100 >= p * c.d

\* a.confidence > b.confidence
ConfidenceGreater(a, b) == a.n * b.d > b.n * a.d

(***************************************************************************)
(* The environment: JIRA issues, TestRail runs and their tests.            *)
(***************************************************************************)
BugKeys == {"BUG-F", "BUG-F2", "BUG-H", "BUG-M", "BUG-U"}

\* bug.fields.summary, the extracted description text and the run findRunId finds
Issue(key) ==
  CASE key = "BUG-F" ->
         [summary |-> <<"Focus", "not", "visible", "on", "search", "button">>,
          description |-> <<"menu", "items">>, run |-> "R1"]
    [] key = "BUG-F2" ->
         [summary |-> <<"focus", "visible", "search", "button", "menu">>,
          description |-> <<>>, run |-> "R2"]
    [] key = "BUG-H" ->
         [summary |-> <<"Heading", "level", "h1", "to", "h3">>,
          description |-> <<"focus", "visible", "on", "search", "button", "menu", "items">>,
          run |-> "R1"]
    [] key = "BUG-M" ->
         [summary |-> <<"heading", "missing", "level">>,
          description |-> <<"focus", "visible", "on", "search", "button", "menu", "items">>,
          run |-> "R1"]
    [] OTHER ->
         [summary |-> <<"search", "button", "menu", "items", "not", "visible">>,
          description |-> <<>>, run |-> "R1"]

\* bugData.summary + ' ' + (bugData.description || '')
BugText(key) == Issue(key).summary \o Issue(key).description

\* a test of a run as getTestsWithDetails returns it
Test(i) == [test_id |-> Num(i), case_id |-> Num(100 + i)]

\* test ids are scoped to their run: the tests of R1 and of R2 are different tests
RunTests(run) == IF run = "R1" THEN <<Test(1), Test(2)>> ELSE <<Test(3)>>

(***************************************************************************)
(* State.                                                                  *)
(***************************************************************************)
VARIABLES
  config,       \* config.js: the settings read from the environment at start
  fileState,    \* learning-data: per file ("c": corrections.json, "m": matches.json)
                \* "absent", "ok" (a complete JSON array) or "partial" (no valid JSON)
  corrections,  \* the array in corrections.json when the file is "ok"
  matches,      \* the array in matches.json when the file is "ok"
  lastOk,       \* per file, the array it held before the write that made its present content
  call,         \* the invocation of matchBugToTestCase in progress: inputs, locals, outcome
  results,      \* TestRail: per test, its results newest first
  jiraStatus,   \* JIRA: per bug, fields.status.name
  gate,         \* the invocation of the pass transition or of the open-bug check in progress
  lastPass,     \* the last pass transition completed with no other operation since
  proc,         \* per concurrent storeMatch / storeCorrection call: its position and locals
  observed,     \* what the last reader of a learning-data file was given
  prefilter,    \* the invocation of findMatchesWithSectionFiltering in progress
  flow,         \* the last workflow handler that ran: its inputs and what it found
  hand,         \* per concurrent handleBugCreated invocation: its position and locals
  engine,       \* matchBugToTestCase waiting for the model: its position and outcome
  lookup,       \* the pass transition waiting for status lookups: its position and locals
  correcting,   \* the invocation of handleCorrection in progress: its comment and outcome
  reopening     \* the invocation of handleBugReopened in progress: its inputs and outcome

storeVars == <<fileState, corrections, matches, lastOk>>
gateVars == <<results, jiraStatus, gate, lastPass>>
procVars == <<proc, observed>>
taskVars == <<hand, engine, lookup>>
handlerVars == <<correcting, reopening>>
flowVars == <<prefilter, flow, taskVars, handlerVars>>
vars == <<config, fileState, corrections, matches, lastOk, call, results, jiraStatus,
          gate, lastPass, proc, observed, prefilter, flow, hand, engine, lookup,
          correcting, reopening>>

(***************************************************************************)
(* learningService.js: reading the store.                                  *)
(***************************************************************************)
\* loadCorrections: the parsed array, or [] when readFile or JSON.parse throws
loadCorrections == IF fileState.c = "ok" THEN corrections ELSE <<>>

\* loadMatches
loadMatches == IF fileState.m = "ok" THEN matches ELSE <<>>

\* the values the service computes from the texts of two bugs, tabulated once per bug
KeywordsOf == [key \in BugKeys |-> extractKeywords(BugText(key))]
IssueTypeOf == [key \in BugKeys |-> detectIssueType(BugText(key))]
ScoreOf ==
  [key \in BugKeys |-> [other \in BugKeys |->
     calculateKeywordMatch(KeywordsOf[key], KeywordsOf[other])]]

KeywordScore(bugKey, otherKey) == ScoreOf[bugKey][otherKey]

RECURSIVE FirstSimilar(_, _, _)
\* the loop of findSimilarMatch over corrections.reverse(), from position i
FirstSimilar(bugKey, reversed, i) ==
  IF i > Len(reversed) THEN <<>>
  ELSE LET correction == reversed[i]
           matchScore == KeywordScore(bugKey, correction.bug)
       IN  IF ScoreAbove(matchScore, 60)
           THEN <<[test_id |-> correction.correct_test_id,
                   case_id |-> correction.correct_case_id,
                   confidence |-> LearnedConfidence(85, matchScore),
                   reasoning |-> [from |-> "correction", bug |-> correction.bug],
                   learned |-> FALSE]>>
           ELSE FirstSimilar(bugKey, reversed, i + 1)

\* findSimilarMatch (single match mode): <<>> is null
findSimilarMatch(bugKey, loadedCorrections) ==
  IF Len(loadedCorrections) = 0 THEN <<>>
  ELSE FirstSimilar(bugKey, Reverse(loadedCorrections), 1)

\* a gate that skips no record
NeverMismatch(bugIssueType, recordIssueType) == FALSE

\* the issue-type test of findSimilarMatches: TRUE when the record is skipped
IssueTypeMismatch(bugIssueType, recordIssueType) ==
  /\ bugIssueType # "unknown"
  /\ recordIssueType # "unknown"
  /\ bugIssueType # recordIssueType

RECURSIVE SimilarFromCorrections(_, _, _, _)
\* the first loop of findSimilarMatches; acc is similarMatches (seenTestIds is its test ids)
SimilarFromCorrections(bugKey, reversed, i, acc) ==
  IF i > Len(reversed) THEN acc
  ELSE LET correction == reversed[i]
           matchScore == KeywordScore(bugKey, correction.bug)
           testId == correction.correct_test_id
           seenTestIds == {acc[k].test_id : k \in 1..Len(acc)}
       IN  IF IssueTypeMismatch(IssueTypeOf[bugKey], IssueTypeOf[correction.bug])
           THEN SimilarFromCorrections(bugKey, reversed, i + 1, acc)
           ELSE IF ScoreAbove(matchScore, 50) /\ testId \notin seenTestIds
                THEN SimilarFromCorrections(bugKey, reversed, i + 1,
                       Append(acc, [test_id |-> testId,
                                    case_id |-> correction.correct_case_id,
                                    confidence |-> LearnedConfidence(85, matchScore),
                                    reasoning |-> [from |-> "correction", bug |-> correction.bug],
                                    learned |-> TRUE]))
                ELSE SimilarFromCorrections(bugKey, reversed, i + 1, acc)

RECURSIVE SimilarFromMatches(_, _, _, _)
\* the second loop of findSimilarMatches, over matches.reverse()
SimilarFromMatches(bugKey, reversed, i, acc) ==
  IF i > Len(reversed) THEN acc
  ELSE LET match == reversed[i]
           matchScore == KeywordScore(bugKey, match.bug)
           testId == match.match.test_id
           seenTestIds == {acc[k].test_id : k \in 1..Len(acc)}
       IN  IF IssueTypeMismatch(IssueTypeOf[bugKey], IssueTypeOf[match.bug])
           THEN SimilarFromMatches(bugKey, reversed, i + 1, acc)
           ELSE IF ScoreAbove(matchScore, 50) /\ testId \notin seenTestIds
                THEN SimilarFromMatches(bugKey, reversed, i + 1,
                       Append(acc, [test_id |-> testId,
                                    case_id |-> match.match.case_id,
                                    confidence |-> LearnedConfidence(80, matchScore),
                                    reasoning |-> [from |-> "match", bug |-> match.bug],
                                    learned |-> TRUE]))
                ELSE SimilarFromMatches(bugKey, reversed, i + 1, acc)

\* findSimilarMatches (multi-match mode)
findSimilarMatches(bugKey, loadedCorrections, loadedMatches) ==
  IF Len(loadedCorrections) = 0 /\ Len(loadedMatches) = 0 THEN <<>>
  ELSE SimilarFromMatches(bugKey, Reverse(loadedMatches), 1,
         SimilarFromCorrections(bugKey, Reverse(loadedCorrections), 1, <<>>))

(***************************************************************************)
(* learningService.js: writing the store, as one uninterrupted call.       *)
(***************************************************************************)
\* initialize: a missing file is created holding []
Initialized(fs) == [f \in DOMAIN fs |-> IF fs[f] = "absent" THEN "ok" ELSE fs[f]]

\* the array a file holds after storeMatch / storeCorrection ran for each of newRecords in
\* turn: initialize, load (a file that does not parse loads as []), push, writeFile
StoredArray(loaded, newRecords) == loaded \o newRecords

(***************************************************************************)
(* aiService.js: the matching engine.                                      *)
(***************************************************************************)
\* every answer of the model passes
AcceptAnswer(match, testCases) == TRUE

\* validateMatch (aiService.js, inside matchBugToTestCase)
validateMatch(match, testCases) ==
  IF Falsy(match.test_id) \/ Falsy(match.case_id)
  THEN FALSE
  ELSE \E i \in 1..Len(testCases) :
         toString(testCases[i].test_id) = toString(match.test_id)

\* isValid && meetsThreshold of the multi-match filter
ValidAboveThreshold(match, testCases) ==
  /\ validateMatch(match, testCases)
  /\ ConfidenceAtLeast(match.confidence, multiMatchThreshold)

Filter(s, Keep(_)) == [k \in 1..Cardinality({i \in 1..Len(s) : Keep(s[i])}) |->
                        s[SelectSeqIdx({i \in 1..Len(s) : Keep(s[i])}, Len(s))[k]]]

RECURSIVE InsertSorted(_, _)
\* insert e behind every element whose confidence is not smaller (the sort is stable)
InsertSorted(sorted, e) ==
  IF sorted = <<>> THEN <<e>>
  ELSE IF ConfidenceGreater(e.confidence, Head(sorted).confidence)
       THEN <<e>> \o sorted
       ELSE <<Head(sorted)>> \o InsertSorted(Tail(sorted), e)

\* the matches left in the order of the answer
KeepOrder(s) == s

RECURSIVE SortByConfidence(_)
\* validMatches.sort((a, b) => b.confidence - a.confidence)
SortByConfidence(s) ==
  IF s = <<>> THEN <<>>
  ELSE InsertSorted(SortByConfidence(SubSeq(s, 1, Len(s) - 1)), s[Len(s)])

RECURSIVE Deduplicate(_, _, _)
\* the loop over validMatches with seenTestIds (a Set: members compare by value and type)
Deduplicate(validMatches, i, deduplicatedMatches) ==
  IF i > Len(validMatches) THEN deduplicatedMatches
  ELSE IF validMatches[i].test_id \notin
            {deduplicatedMatches[k].test_id : k \in 1..Len(deduplicatedMatches)}
       THEN Deduplicate(validMatches, i + 1, Append(deduplicatedMatches, validMatches[i]))
       ELSE Deduplicate(validMatches, i + 1, deduplicatedMatches)

\* a match object as parsed from the model's JSON
ModelMatch(entry, bugKey) ==
  [test_id |-> entry.test_id, case_id |-> entry.case_id,
   confidence |-> [n |-> entry.confidence, d |-> 100],
   reasoning |-> [from |-> "model", bug |-> bugKey], learned |-> FALSE]

\* the record storeMatch appends for a returned match (the fields the service reads back)
MatchRecord(bugKey, match) ==
  [bug |-> bugKey, match |-> [test_id |-> match.test_id, case_id |-> match.case_id]]

\* the empty list is passed on like any other
NeverEmpty(deduplicatedMatches) == FALSE

\* deduplicatedMatches.length === 0
NoMatchesLeft(deduplicatedMatches) == Len(deduplicatedMatches) = 0

\* matchBugToTestCase after the learning lookup: the reply of the model is handled
AfterModel(bugKey, testCases, reply, enableMultiMatch) ==
  IF reply.kind = "failure"
  THEN [outcome |-> "error", shape |-> "none", result |-> <<>>, stored |-> <<>>]
  ELSE IF enableMultiMatch /\ reply.kind = "list"
  THEN LET raw == [i \in 1..Len(reply.items) |-> ModelMatch(reply.items[i], bugKey)]
           Keep(m) == ValidAboveThreshold(m, testCases)
           validMatches == SortByConfidence(Filter(raw, Keep))
           deduplicatedMatches == Deduplicate(validMatches, 1, <<>>)
       IN  IF NoMatchesLeft(deduplicatedMatches)
           THEN [outcome |-> "error", shape |-> "none", result |-> <<>>, stored |-> <<>>]
           ELSE [outcome |-> "returned", shape |-> "list", result |-> deduplicatedMatches,
                 stored |-> [i \in 1..Len(deduplicatedMatches) |->
                               MatchRecord(bugKey, deduplicatedMatches[i])]]
  ELSE LET result == IF reply.kind = "list"
                     THEN [test_id |-> Undefined, case_id |-> Undefined,
                           confidence |-> [n |-> 0, d |-> 100],
                           reasoning |-> [from |-> "model", bug |-> bugKey],
                           learned |-> FALSE]
                     ELSE ModelMatch(reply.items[1], bugKey)
       IN  IF ~validateMatch(result, testCases)
           THEN [outcome |-> "error", shape |-> "none", result |-> <<>>, stored |-> <<>>]
           ELSE [outcome |-> "returned", shape |-> "object", result |-> <<result>>,
                 stored |-> <<MatchRecord(bugKey, result)>>]

\* learned matches are used as soon as one of them is valid
SomeLearnedValid(validLearnedMatches, learnedMatches) == Len(validLearnedMatches) > 0

\* validLearnedMatches.length === learnedMatches.length
AllLearnedValid(validLearnedMatches, learnedMatches) ==
  Len(validLearnedMatches) = Len(learnedMatches)

\* matchBugToTestCase: what it returns or throws, and the records it hands to storeMatch
matchBugToTestCase(bugKey, testCases, reply, cfg, loadedCorrections, loadedMatches) ==
  LET learnedMatch == findSimilarMatch(bugKey, loadedCorrections)
      learnedMatches == findSimilarMatches(bugKey, loadedCorrections, loadedMatches)
      IsValidLearned(lm) ==
        \E i \in 1..Len(testCases) : toString(testCases[i].test_id) = toString(lm.test_id)
      validLearnedMatches == Filter(learnedMatches, IsValidLearned)
      fromModel == AfterModel(bugKey, testCases, reply, cfg.enableMultiMatch)
  IN  IF ~cfg.enableMultiMatch /\ learnedMatch # <<>>
      THEN [outcome |-> "returned", shape |-> "object",
            result |-> <<[learnedMatch[1] EXCEPT !.learned = TRUE]>>,
            stored |-> <<>>, usedModel |-> FALSE, learnedMatches |-> learnedMatch]
      ELSE IF /\ cfg.enableMultiMatch
              /\ Len(learnedMatches) > 0
              /\ AllLearnedValid(validLearnedMatches, learnedMatches)
      THEN [outcome |-> "returned", shape |-> "list", result |-> validLearnedMatches,
            stored |-> <<>>, usedModel |-> FALSE, learnedMatches |-> learnedMatches]
      ELSE [outcome |-> fromModel.outcome, shape |-> fromModel.shape,
            result |-> fromModel.result, stored |-> fromModel.stored, usedModel |-> TRUE,
            learnedMatches |-> IF cfg.enableMultiMatch THEN learnedMatches ELSE learnedMatch]

(***************************************************************************)
(* Inputs.                                                                 *)
(***************************************************************************)
\* one match object of the model's JSON answer
Entry(id, hasCase, confidence) ==
  [test_id |-> id,
   case_id |-> IF hasCase THEN Num(100 + id.v) ELSE Undefined,
   confidence |-> confidence]

ReplyTestIds == {Str(1), Num(1), Str(2), Str(3), Undefined}
ReplyConfidences == {60, 70, 80, 90}

\* test "1" at every confidence, the same test as a number at two, another candidate, a
\* test that is no candidate, an entry without test_id and one without case_id
ReplyEntries ==
  {Entry(Str(1), TRUE, c) : c \in ReplyConfidences}
    \cup {Entry(Num(1), TRUE, c) : c \in {80, 90}}
    \cup {Entry(id, TRUE, 90) : id \in ReplyTestIds}
    \cup {Entry(Str(1), FALSE, 90)}

Failure == [kind |-> "failure", items |-> <<>>]

\* answers of the model: no answer (timeout, transport or JSON error), one match object,
\* or an object with a matches array of at most MaxReply entries
Replies ==
  {Failure}
    \cup {[kind |-> "object", items |-> <<e>>] : e \in ReplyEntries}
    \cup {[kind |-> "list", items |-> s] : s \in SeqsUpTo(ReplyEntries, MaxReply)}

\* the answers that name the first test of the list with its case, or fail
PlainReplies(testCases) ==
  {Failure,
   [kind |-> "object", items |-> <<Entry(Str(testCases[1].test_id.v), TRUE, 80)>>],
   [kind |-> "list", items |-> <<Entry(Str(testCases[1].test_id.v), TRUE, 80)>>]}

(***************************************************************************)
(* The service under its configuration: storing and matching, each call    *)
(* running to completion before the next starts.                           *)
(***************************************************************************)
Configs == [enableMultiMatch : BOOLEAN, learningEnabled : BOOLEAN, dryRunMode : BOOLEAN]

NoCall ==
  [op |-> "none", bug |-> "none", testCases |-> <<>>, outcome |-> "none", shape |-> "none",
   result |-> <<>>, stored |-> <<>>, usedModel |-> FALSE, learnedMatches |-> <<>>,
   reply |-> Failure]

NoPass == [test |-> 0, bug |-> "none", appended |-> FALSE]

NoGate ==
  [op |-> "none", test |-> 0, bug |-> "none", fetchOk |-> TRUE, failed |-> {},
   status |-> "none", message |-> "none", skipped |-> FALSE, activeBugs |-> {},
   appended |-> FALSE, threw |-> FALSE, hasOpen |-> FALSE, openBugs |-> {},
   previous |-> NoPass]

NoFilter ==
  [op |-> "none", title |-> <<>>, testCases |-> <<>>, groupOk |-> TRUE,
   narrowed |-> FALSE, remaining |-> <<>>, autoMatched |-> FALSE, matches |-> <<>>,
   calledEngine |-> FALSE, handed |-> <<>>, outcome |-> "none"]

NoFlow ==
  [op |-> "none", bug |-> "none", from |-> "none", named |-> {}, linkedBefore |-> {},
   previous |-> {}, passedBefore |-> {}, success |-> FALSE]

Handlers == {"h1", "h2"}

NoHand == [pc |-> "idle", bug |-> "none", testIds |-> <<>>, alreadyLinked |-> FALSE]

NoEngine ==
  [pc |-> "idle", bug |-> "none", calls |-> 0, timedOut |-> FALSE, outcome |-> "none",
   result |-> <<>>, stored |-> <<>>]

NoLookup ==
  [pc |-> "idle", test |-> 0, bug |-> "none", todo |-> {}, activeBugs |-> {},
   unanswered |-> {}, status |-> "none", appended |-> FALSE]

\* returned: the records of the calls on the file that had returned when the reader started
NoCorrection == [op |-> "none", comment |-> <<>>, success |-> FALSE, posted |-> FALSE]

NoReopening == [op |-> "none", bug |-> "none", fetchOk |-> TRUE, usedMatcher |-> FALSE]

NoRead == [file |-> "none", held |-> <<>>, records |-> <<>>, returned |-> {}]

Writers == {"w1", "w2"}

Idle == [pc |-> "idle", file |-> "none", record |-> <<>>, buffer |-> <<>>]

TestIds == {1}
RunTestIds == {1, 2}
GateBugs == {"BUG-F", "BUG-H", "BUG-M"}

\* the part of the state every specification starts from: no learning data on disk, no
\* results in TestRail, no call in progress
Quiet ==
  /\ fileState = [c |-> "absent", m |-> "absent"]
  /\ corrections = <<>>
  /\ matches = <<>>
  /\ lastOk = [c |-> <<>>, m |-> <<>>]
  /\ call = NoCall
  /\ results = [t \in RunTestIds |-> <<>>]
  /\ gate = NoGate
  /\ lastPass = NoPass
  /\ proc = [w \in Writers |-> Idle]
  /\ observed = NoRead
  /\ prefilter = NoFilter
  /\ flow = NoFlow
  /\ hand = [h \in Handlers |-> NoHand]
  /\ engine = NoEngine
  /\ lookup = NoLookup
  /\ correcting = NoCorrection
  /\ reopening = NoReopening

Init ==
  /\ config \in {c \in Configs : ~c.dryRunMode}
  /\ jiraStatus = [b \in GateBugs |-> "Ready for Dev"]
  /\ Quiet

\* storeCorrection(bug, originalMatch, correctedMatch), as handleCorrection calls it with
\* correct_test_id: correctTest.id.toString()
StoreCorrection(bugKey, test) ==
  /\ call = NoCall
  /\ Len(loadCorrections) < MaxCorrections
  /\ IF config.learningEnabled
     THEN /\ fileState' = [Initialized(fileState) EXCEPT !.c = "ok"]
          /\ corrections' = StoredArray(loadCorrections,
                              <<[bug |-> bugKey,
                                 correct_test_id |-> Str(toString(test.test_id)),
                                 correct_case_id |-> test.case_id]>>)
          /\ lastOk' = [lastOk EXCEPT !.c = loadCorrections]
          /\ UNCHANGED matches
     ELSE UNCHANGED storeVars
  /\ UNCHANGED <<flowVars, config, call, gateVars, procVars>>

\* matchBugToTestCase(bug, testCases) with the records it stores through storeMatch
MatchBugToTestCase(bugKey, testCases, reply) ==
  /\ call = NoCall
  /\ \E r \in {matchBugToTestCase(bugKey, testCases, reply, config,
                                  loadCorrections, loadMatches)} :
       /\ Len(loadMatches) + Len(r.stored) <= MaxMatches
       /\ call' = [op |-> "match", bug |-> bugKey, testCases |-> testCases,
                   outcome |-> r.outcome, shape |-> r.shape, result |-> r.result,
                   stored |-> r.stored, usedModel |-> r.usedModel,
                   learnedMatches |-> r.learnedMatches, reply |-> reply]
       /\ IF config.learningEnabled /\ Len(r.stored) > 0
          THEN /\ fileState' = [Initialized(fileState) EXCEPT !.m = "ok"]
               /\ matches' = StoredArray(loadMatches, r.stored)
               /\ lastOk' = [lastOk EXCEPT !.m = loadMatches]
               /\ UNCHANGED corrections
          ELSE UNCHANGED storeVars
  /\ UNCHANGED <<flowVars, config, gateVars, procVars>>

\* the caller has consumed the outcome of matchBugToTestCase
CallReturned ==
  /\ call # NoCall
  /\ call' = NoCall
  /\ UNCHANGED <<flowVars, config, storeVars, gateVars, procVars>>

\* bugs a tester corrects: a focus bug, a heading-level bug and an uncategorised one
CorrectedBugs == {"BUG-F", "BUG-H", "BUG-U"}

CorrectionStored ==
  \E bugKey \in CorrectedBugs : \E i \in 1..Len(RunTests(Issue(bugKey).run)) :
    StoreCorrection(bugKey, RunTests(Issue(bugKey).run)[i])

BugMatched ==
  \E bugKey \in BugKeys :
    \E reply \in PlainReplies(RunTests(Issue(bugKey).run)) :
      MatchBugToTestCase(bugKey, RunTests(Issue(bugKey).run), reply)

Next == CorrectionStored \/ BugMatched \/ CallReturned

Spec == Init /\ [][Next]_vars

\* the engine alone, on every answer of the model
EngineBugs == {"BUG-F"}

ModelAnswered ==
  \E bugKey \in EngineBugs : \E reply \in Replies :
    MatchBugToTestCase(bugKey, RunTests(Issue(bugKey).run), reply)

NextEngine == ModelAnswered \/ CallReturned

SpecEngine == Init /\ [][NextEngine]_vars

(***************************************************************************)
(* workflowService.js and testRailService.js: the results of a test, the   *)
(* defects linked to them, and the transition back to Passed.              *)
(***************************************************************************)
\* fields.status.name of a JIRA bug
Statuses == {"Ready for Dev", "REOPENED", "Done"}

statusOpen == "Open"
statusReadyForDev == "Ready for Dev"

\* getResults: the results newest first, or [] when the request fails
getResults(testId, fetchOk) == IF fetchOk THEN results[testId] ELSE <<>>

\* the results of a test after addResult posted one (no dry run, the POST succeeded)
addResult(history, statusId, defects) ==
  <<[status_id |-> statusId, defects |-> defects]>> \o history

\* the defects of the newest result only
NewestBugs(testResults) == IF Len(testResults) = 0 THEN {} ELSE testResults[1].defects

\* the bug ids in the defects of all results (allBugsSet with removedBugId still in it)
AllBugs(testResults) == UNION {testResults[i].defects : i \in 1..Len(testResults)}

\* isBugAlreadyLinked
isBugAlreadyLinked(testId, bugId, fetchOk) == bugId \in AllBugs(getResults(testId, fetchOk))

\* the loop of getActiveBugs with a failed lookup skipped
getActiveBugsFound(bugIds, failed) ==
  {b \in bugIds : b \notin failed
                  /\ toLowerCase(jiraStatus[b]) \in {"open", "reopened", "ready for dev"}}

\* getActiveBugs; failed is the set of bugs whose getIssue throws
getActiveBugs(bugIds, failed) ==
  {b \in bugIds : \/ b \in failed
                  \/ toLowerCase(jiraStatus[b]) \in {"open", "reopened", "ready for dev"}}

\* no result counts as already passed
NeverPassed(latestResult) == FALSE

\* latestResult.status_id === 1
AlreadyPassed(latestResult) == latestResult.status_id = 1

\* markTestAsPassedIntelligently up to its call of markAsPassed: what it returns, and
\* whether it posts a Passed result (write)
markTestAsPassedIntelligently(testResults, removedBugId, failed) ==
  LET foundRemovedBug == removedBugId \in AllBugs(testResults)
      allOtherBugs == AllBugs(testResults) \ {removedBugId}
      activeBugs == getActiveBugs(allOtherBugs, failed)
  IN  IF Len(testResults) = 0
      THEN [status |-> "Passed", message |-> "No test results found", skipped |-> FALSE,
            activeBugs |-> {}, write |-> FALSE]
      ELSE IF AlreadyPassed(testResults[1])
      THEN [status |-> "Passed", message |-> "already Passed", skipped |-> TRUE,
            activeBugs |-> {}, write |-> FALSE]
      ELSE IF ~foundRemovedBug
      THEN [status |-> "Passed", message |-> "not found in test results", skipped |-> FALSE,
            activeBugs |-> {}, write |-> FALSE]
      ELSE IF activeBugs # {}
      THEN [status |-> "Failed", message |-> "kept as Failed", skipped |-> FALSE,
            activeBugs |-> activeBugs, write |-> FALSE]
      ELSE [status |-> "Passed", message |-> "marked as Passed", skipped |-> FALSE,
            activeBugs |-> {}, write |-> TRUE]

\* checkForOpenBugs: hasOpen and the keys of openBugs
checkForOpenBugs(testId, currentBugKey, fetchOk, failed) ==
  LET allBugIds == AllBugs(results[testId]) \ {currentBugKey}
      openStatuses == {statusOpen, "Reopened", statusReadyForDev}
      openBugs == {b \in allBugIds : b \in failed \/ jiraStatus[b] \in openStatuses}
  IN  IF ~fetchOk THEN [hasOpen |-> TRUE, openBugs |-> {"Error"}]
      ELSE IF Len(results[testId]) = 0 \/ allBugIds = {}
      THEN [hasOpen |-> FALSE, openBugs |-> {}]
      ELSE [hasOpen |-> openBugs # {}, openBugs |-> openBugs]

\* handleBugCreated from isBugAlreadyLinked on: the matched test is marked Failed with the
\* bug as its defect unless a result already carries the bug
BugLinked(testId, issueKey, fetchOk, postOk) ==
  /\ gate = NoGate
  /\ Len(results[testId]) < MaxResults
  /\ results' = IF ~isBugAlreadyLinked(testId, issueKey, fetchOk)
                   /\ ~config.dryRunMode /\ postOk
                THEN [results EXCEPT ![testId] = addResult(@, statusFailed, {issueKey})]
                ELSE results
  /\ lastPass' = NoPass
  /\ UNCHANGED <<flowVars, config, storeVars, call, jiraStatus, gate, procVars>>

\* a bug moves to another status in JIRA
StatusChanged(bugId, status) ==
  /\ gate = NoGate
  /\ jiraStatus[bugId] # status
  /\ jiraStatus' = [jiraStatus EXCEPT ![bugId] = status]
  /\ lastPass' = NoPass
  /\ UNCHANGED <<flowVars, config, storeVars, call, results, gate, procVars>>

\* markTestAsPassedIntelligently(testId, removedBugId, reason)
MarkTestAsPassedIntelligently(testId, removedBugId, fetchOk, failed, postOk) ==
  /\ gate = NoGate
  /\ \E r \in {markTestAsPassedIntelligently(getResults(testId, fetchOk),
                                             removedBugId, failed)} :
       \E appended \in {r.write /\ ~config.dryRunMode /\ postOk} :
         \E threw \in {r.write /\ ~config.dryRunMode /\ ~postOk} :
           /\ appended => Len(results[testId]) < MaxResults
           /\ results' = IF appended
                         THEN [results EXCEPT ![testId] = addResult(@, statusPassed, {})]
                         ELSE results
           /\ gate' = [op |-> "mark", test |-> testId, bug |-> removedBugId,
                       fetchOk |-> fetchOk, failed |-> failed,
                       status |-> IF threw THEN "none" ELSE r.status,
                       message |-> IF threw THEN "none" ELSE r.message,
                       skipped |-> r.skipped, activeBugs |-> r.activeBugs,
                       appended |-> appended, threw |-> threw,
                       hasOpen |-> FALSE, openBugs |-> {}, previous |-> lastPass]
           /\ lastPass' = IF threw THEN NoPass
                          ELSE [test |-> testId, bug |-> removedBugId, appended |-> appended]
  /\ UNCHANGED <<flowVars, config, storeVars, call, jiraStatus, procVars>>

\* checkForOpenBugs(testId, currentBugKey)
CheckForOpenBugs(testId, currentBugKey, fetchOk, failed) ==
  /\ gate = NoGate
  /\ \E r \in {checkForOpenBugs(testId, currentBugKey, fetchOk, failed)} :
       gate' = [op |-> "check", test |-> testId, bug |-> currentBugKey,
                fetchOk |-> fetchOk, failed |-> failed, status |-> "none",
                message |-> "none", skipped |-> FALSE, activeBugs |-> {},
                appended |-> FALSE, threw |-> FALSE,
                hasOpen |-> r.hasOpen, openBugs |-> r.openBugs, previous |-> lastPass]
  /\ lastPass' = NoPass
  /\ UNCHANGED <<flowVars, config, storeVars, call, results, jiraStatus, procVars>>

\* the caller has consumed what the pass transition or the check returned
GateReturned ==
  /\ gate # NoGate
  /\ gate' = NoGate
  /\ UNCHANGED <<flowVars, config, storeVars, call, results, jiraStatus, lastPass, procVars>>

\* the sets of bugs whose status lookup fails during one call
Failures == {{}} \cup {{b} : b \in GateBugs}

BugCreated ==
  \E testId \in TestIds : \E issueKey \in GateBugs : \E fetchOk, postOk \in BOOLEAN :
    BugLinked(testId, issueKey, fetchOk, postOk)

BugMoved == \E bugId \in GateBugs : \E status \in Statuses : StatusChanged(bugId, status)

\* handleBugResolved: the pass transition runs for the tests findTestsWithBug found the bug
\* linked to
BugResolved ==
  \E testId \in TestIds : \E bugId \in GateBugs : \E fetchOk, postOk \in BOOLEAN :
    \E failed \in Failures :
      /\ bugId \in AllBugs(results[testId])
      /\ MarkTestAsPassedIntelligently(testId, bugId, fetchOk, failed, postOk)

OpenBugsChecked ==
  \E testId \in TestIds : \E bugId \in GateBugs : \E fetchOk \in BOOLEAN :
    \E failed \in Failures : CheckForOpenBugs(testId, bugId, fetchOk, failed)

InitGate ==
  /\ config \in {c \in Configs : ~c.enableMultiMatch /\ c.learningEnabled}
  /\ jiraStatus = [b \in GateBugs |-> "Ready for Dev"]
  /\ Quiet

NextGate == BugCreated \/ BugMoved \/ BugResolved \/ OpenBugsChecked \/ GateReturned

SpecGate == InitGate /\ [][NextGate]_vars

(***************************************************************************)
(* learningService.js: storeMatch and storeCorrection running concurrently *)
(* (the server does not await processWebhook), one file operation a step.  *)
(***************************************************************************)
Files == {"c", "m"}

\* the array a file holds, and what loadCorrections / loadMatches make of the file
Content(f) == IF f = "c" THEN corrections ELSE matches
Load(f) == IF f = "c" THEN loadCorrections ELSE loadMatches

\* the records file f held when it was last whole
Held(f) == IF fileState[f] = "ok" THEN Content(f) ELSE lastOk[f]

\* the bug of the call a writer makes
WriterBug(w) == IF w = "w1" THEN "BUG-F" ELSE IF w = "w2" THEN "BUG-H" ELSE "BUG-U"

\* the record the call appends to its file
WriterRecord(w, f) ==
  IF f = "c"
  THEN [bug |-> WriterBug(w), correct_test_id |-> Str(1), correct_case_id |-> Num(101)]
  ELSE MatchRecord(WriterBug(w), Test(1))

\* file f gets state st and array content; lastOk keeps the last array written out whole
SetFile(f, st, content) ==
  /\ fileState' = [fileState EXCEPT ![f] = st]
  /\ corrections' = IF f = "c" THEN content ELSE corrections
  /\ matches' = IF f = "m" THEN content ELSE matches
  /\ lastOk' = IF fileState[f] = "ok" THEN [lastOk EXCEPT ![f] = Content(f)] ELSE lastOk

Goto(w, pc) == proc' = [proc EXCEPT ![w].pc = pc]

\* storeMatch / storeCorrection is called: the learningEnabled check
Begin(w, f) ==
  /\ proc[w].pc = "idle"
  /\ proc' = [proc EXCEPT ![w] =
                [pc |-> IF config.learningEnabled THEN "accessM" ELSE "done",
                 file |-> f, record |-> WriterRecord(w, f), buffer |-> <<>>]]
  /\ UNCHANGED <<flowVars, config, storeVars, call, gateVars, observed>>

\* initialize: fs.access on matches.json, then on corrections.json
Access(w) ==
  /\ proc[w].pc \in {"accessM", "accessC"}
  /\ \E f \in {IF proc[w].pc = "accessM" THEN "m" ELSE "c"} :
       Goto(w, IF fileState[f] = "absent"
               THEN (IF f = "m" THEN "createM" ELSE "createC")
               ELSE (IF f = "m" THEN "accessC" ELSE "load"))
  /\ UNCHANGED <<flowVars, config, storeVars, call, gateVars, observed>>

\* initialize: fs.writeFile(file, '[]') after fs.access had failed
Create(w) ==
  /\ proc[w].pc \in {"createM", "createC"}
  /\ \E f \in {IF proc[w].pc = "createM" THEN "m" ELSE "c"} :
       /\ SetFile(f, "ok", <<>>)
       /\ Goto(w, IF f = "m" THEN "accessC" ELSE "load")
  /\ UNCHANGED <<flowVars, config, call, gateVars, observed>>

\* loadMatches / loadCorrections and the push of the new record
LoadAndPush(w) ==
  /\ proc[w].pc = "load"
  /\ proc' = [proc EXCEPT ![w].pc = "open",
                          ![w].buffer = Load(proc[w].file) \o <<proc[w].record>>]
  /\ UNCHANGED <<flowVars, config, storeVars, call, gateVars, observed>>

\* fs.writeFile opens the file for writing, which empties it
Open(w) ==
  /\ proc[w].pc = "open"
  /\ SetFile(proc[w].file, "partial", <<>>)
  /\ Goto(w, "write")
  /\ UNCHANGED <<flowVars, config, call, gateVars, observed>>

\* fs.writeFile writes the whole array out and the call returns
Write(w) ==
  /\ proc[w].pc = "write"
  /\ SetFile(proc[w].file, "ok", proc[w].buffer)
  /\ Goto(w, "done")
  /\ UNCHANGED <<flowVars, config, call, gateVars, observed>>

\* the call is cancelled, or a file operation fails and the catch of the call logs it
Fail(w) ==
  /\ proc[w].pc \in {"accessM", "createM", "accessC", "createC", "load", "open", "write"}
  /\ Goto(w, "failed")
  /\ UNCHANGED <<flowVars, config, storeVars, call, gateVars, observed>>

\* a reader (findSimilarMatch, findSimilarMatches, getTestCasesByBugKey, getStatistics)
\* loads a file that exists
Read(f) ==
  /\ fileState[f] # "absent"
  /\ observed' = [file |-> f, held |-> Held(f), records |-> Load(f),
                   returned |-> {proc[w].record : w \in {x \in Writers :
                                  proc[x].pc = "done" /\ proc[x].file = f}}]
  /\ UNCHANGED <<flowVars, config, storeVars, call, gateVars, proc>>

StoreBegun == \E w \in Writers : \E f \in Files : Begin(w, f)
FileChecked == \E w \in Writers : Access(w)
FileCreated == \E w \in Writers : Create(w)
ArrayLoaded == \E w \in Writers : LoadAndPush(w)
FileOpened == \E w \in Writers : Open(w)
FileWritten == \E w \in Writers : Write(w)
StoreFailed == \E w \in Writers : Fail(w)
StoreRead == \E f \in Files : Read(f)

InitStore ==
  /\ config \in {c \in Configs : ~c.enableMultiMatch /\ ~c.dryRunMode}
  /\ jiraStatus = [b \in GateBugs |-> "Ready for Dev"]
  /\ Quiet

NextStore ==
  \/ StoreBegun \/ FileChecked \/ FileCreated \/ ArrayLoaded
  \/ FileOpened \/ FileWritten \/ StoreFailed \/ StoreRead

SpecStore == InitStore /\ [][NextStore]_vars

(***************************************************************************)
(* Properties of the matching engine and of the learning lookup.           *)
(***************************************************************************)
\* the test ids of a test list, as validateMatch compares them
CandidateIds(testCases) == {toString(testCases[j].test_id) : j \in 1..Len(testCases)}

\* C1: every invocation of matchBugToTestCase that returns, in single-match and in
\* multi-match mode, returns only matches whose test_id is the test_id of a candidate
\* passed to it, matches taken from the learning store included.
ReturnedAmongCandidates ==
  call.outcome = "returned" =>
    \A i \in 1..Len(call.result) :
      toString(call.result[i].test_id) \in CandidateIds(call.testCases)

\* the model was asked in multi-match mode and answered with a matches array
AnsweredWithList ==
  /\ call.op = "match"
  /\ call.usedModel
  /\ config.enableMultiMatch
  /\ call.reply.kind = "list"

\* the entries of the engine's output for a test_id
OutputFor(id) == {k \in 1..Len(call.result) : call.result[k].test_id = id}

\* the entry passes validateMatch and reaches multiMatchThreshold
Qualifies(entry) ==
  /\ ~Falsy(entry.test_id)
  /\ ~Falsy(entry.case_id)
  /\ toString(entry.test_id) \in CandidateIds(call.testCases)
  /\ entry.confidence >= multiMatchThreshold

Proposed == IF call.op = "match" /\ config.enableMultiMatch THEN call.learnedMatches ELSE <<>>

\* C9 as stated: findSimilarMatches proposes a learned match from a stored record only if
\* the record's category is unknown or equals the category of the incoming bug.
GateOnRecordCategory ==
  \A i \in 1..Len(Proposed) :
    \/ IssueTypeOf[Proposed[i].reasoning.bug] = "unknown"
    \/ IssueTypeOf[Proposed[i].reasoning.bug] = IssueTypeOf[call.bug]

\* C9, amended: findSimilarMatches proposes a learned match from a stored record only if
\* the record's category is unknown, the incoming bug's category is unknown, or the two
\* categories are equal.
GateOnBothCategories ==
  \A i \in 1..Len(Proposed) :
    \/ IssueTypeOf[Proposed[i].reasoning.bug] = "unknown"
    \/ IssueTypeOf[call.bug] = "unknown"
    \/ IssueTypeOf[Proposed[i].reasoning.bug] = IssueTypeOf[call.bug]

\* a bug of a known category was proposed the test of a record of unknown category, with a
\* record of another known category in the store that overlaps it as much
GateOnBothCategoriesCase ==
  /\ Len(Proposed) > 0
  /\ IssueTypeOf[call.bug] = "heading-level"
  /\ \E i \in 1..Len(Proposed) : IssueTypeOf[Proposed[i].reasoning.bug] = "unknown"
  /\ \E k \in 1..Len(loadCorrections) :
       /\ IssueTypeOf[loadCorrections[k].bug] = "focus"
       /\ ScoreAbove(KeywordScore(call.bug, loadCorrections[k].bug), 50)

\* C10: whichever match mode is configured, a bug classified heading-level never receives
\* as a learned match the test of a stored correction whose bug text is classified focus
\* (or any other category that is neither unknown nor its own).
NoCrossCategoryLearnedMatch ==
  (call.op = "match" /\ IssueTypeOf[call.bug] = "heading-level") =>
    \A i \in 1..Len(call.learnedMatches) :
      call.learnedMatches[i].reasoning.from = "correction" =>
        IssueTypeOf[call.learnedMatches[i].reasoning.bug] \in {"unknown", "heading-level"}

(***************************************************************************)
(* Properties of the transition back to Passed.                            *)
(***************************************************************************)
\* the statuses the specification calls open
OpenSet == {"Open", "Reopened", "Ready for Dev"}

\* every defect key that occurs in a result of the test
HistoryDefects(testId) ==
  {b \in GateBugs : \E i \in 1..Len(results[testId]) : b \in results[testId][i].defects}

\* the defects of the whole history of the test of the call, the bug of the call removed
Remaining == HistoryDefects(gate.test) \ {gate.bug}

OpenRemaining == {b \in Remaining : jiraStatus[b] \in OpenSet}

\* the call read the history, found its newest result not Passed and the bug in it
ReachedGate ==
  /\ gate.fetchOk
  /\ gate.bug \in HistoryDefects(gate.test)
  /\ gate.message # "already Passed"

LookupFailureCountsAsOpen ==
  gate.op # "none" =>
    \A b \in gate.failed \cap Remaining :
      /\ (gate.op = "check" /\ gate.fetchOk) => (gate.hasOpen /\ b \in gate.openBugs)
      /\ gate.op = "mark" => ~gate.appended
      /\ (gate.op = "mark" /\ ReachedGate) => b \in gate.activeBugs

\* the only thing that kept the test Failed is a lookup that failed for a closed defect
LookupFailureCountsAsOpenCase ==
  /\ gate.op = "mark"
  /\ ReachedGate
  /\ ~config.dryRunMode
  /\ \E b \in gate.failed \cap Remaining : gate.activeBugs = {b} /\ jiraStatus[b] = "Done"

\* this call follows a completed pass transition for the same test and bug
SecondInARow ==
  /\ gate.op = "mark"
  /\ gate.previous.test = gate.test
  /\ gate.previous.bug = gate.bug

IsPrefix(s, t) == Len(s) <= Len(t) /\ SubSeq(t, 1, Len(s)) = s

\* C4: when storeMatch / storeCorrection calls that ran concurrently have all returned,
\* the store contains one record for every call: no append is lost or overwritten.
NoAppendLost ==
  (config.learningEnabled /\ \A w \in Writers : proc[w].pc = "done") =>
    \A w \in Writers : proc[w].record \in Range(Load(proc[w].file))

\* C5: the corrections store only grows: whenever corrections.json has been written, the
\* corrections it held before are all still there, unchanged and in the same order.
CorrectionsOnlyGrow == fileState.c = "ok" => IsPrefix(lastOk.c, corrections)

\* C6: a storeMatch or storeCorrection that is cancelled or fails partway leaves the store
\* holding the records it held before, with or without the whole new record, and no
\* reader is given anything else than the records of a store written out whole.
StoreNeverHalfWritten ==
  /\ observed.records = observed.held
  /\ (\A w \in Writers : proc[w].pc \in {"idle", "done", "failed"}) =>
       \A f \in Files : IsPrefix(Held(f), Load(f))

(***************************************************************************)
(* workflowService.js: the section filter in front of the matching engine. *)
(***************************************************************************)
\* a test of the run with the section of its case (0: no section_id)
Candidate(i, section) ==
  [test_id |-> Num(i), case_id |-> Num(100 + i), section_id |-> section]

RECURSIVE CandidateLists(_)
\* the runs of n tests: tests 1..n, each in no section, in section 1, 2 or 3
CandidateLists(n) ==
  IF n = 0 THEN {<<>>}
  ELSE {Append(l, Candidate(n, sec)) : l \in CandidateLists(n - 1), sec \in 0..3}

\* getSections: sections 1 and 2; section 3 is not in the answer
SectionName(sectionId) ==
  CASE sectionId = 0 -> "Uncategorized"
    [] sectionId = 1 -> "Focus Visible"
    [] sectionId = 2 -> "Headings"
    [] OTHER -> "Section 3"

\* sectionName.includes(criterion.toLowerCase()), both in lower case
NameIncludes(sectionName, criterion) ==
  \/ sectionName = criterion
  \/ sectionName = "focus visible" /\ criterion = "focus"
  \/ sectionName = "all tests" /\ criterion \in {"tests", "test"}

\* bug summaries, split at '|' and trimmed; <<>> is the empty summary
Titles ==
  {<<>>, <<"Focus not visible">>, <<"508c", "Focus Visible", "Proj">>, <<"508c", "focus">>,
   <<"508c", "Color">>, <<"508c", "Test">>, <<"508c", "Tests">>, <<"508c", "">>}

\* extractCriterionFromTitle: "" stands for null as well (both are falsy to the caller)
extractCriterionFromTitle(title) ==
  IF Len(title) >= 2 /\ toLowerCase(title[2]) \notin {"test", "project", "508c", "bug", "issue"}
  THEN title[2]
  ELSE ""

\* groupTestCasesBySection: the groups in the order their first test appears
groupTestCasesBySection(testCases, groupOk) ==
  IF ~groupOk
  THEN <<[sectionId |-> 0, sectionName |-> "All Tests", tests |-> testCases]>>
  ELSE LET first == {i \in 1..Len(testCases) :
                       \A j \in 1..(i - 1) : testCases[j].section_id # testCases[i].section_id}
           order == SelectSeqIdx(first, Len(testCases))
       IN  [k \in 1..Cardinality(first) |->
             LET sectionId == testCases[order[k]].section_id
                 InSection(t) == t.section_id = sectionId
             IN  [sectionId |-> sectionId, sectionName |-> SectionName(sectionId),
                  tests |-> Filter(testCases, InSection)]]

RECURSIVE FlatTests(_)
\* matchingSections.flatMap(group => group.tests)
FlatTests(groups) ==
  IF groups = <<>> THEN <<>> ELSE Head(groups).tests \o FlatTests(Tail(groups))

\* the tests of the matching sections, whether or not a section matches
FlatAlways(testCases, matchingSections) == FlatTests(matchingSections)

\* filteredTestCases once the sections were looked at
FilteredTestCases(testCases, matchingSections) ==
  IF Len(matchingSections) > 0 THEN FlatTests(matchingSections) ELSE testCases

\* some test is left
AnyCandidate(filteredTestCases) == Len(filteredTestCases) >= 1

\* filteredTestCases.length === 1
SoleCandidate(filteredTestCases) == Len(filteredTestCases) = 1

\* findMatchesWithSectionFiltering up to the call of the matching engine
findMatchesWithSectionFiltering(title, testCases, groupOk) ==
  LET criterion == extractCriterionFromTitle(title)
      sectionGroups == groupTestCasesBySection(testCases, groupOk)
      Matching(group) == NameIncludes(toLowerCase(group.sectionName), toLowerCase(criterion))
      matchingSections == IF criterion # "" THEN Filter(sectionGroups, Matching) ELSE <<>>
      filteredTestCases == IF criterion # ""
                           THEN FilteredTestCases(testCases, matchingSections)
                           ELSE testCases
      autoMatched == /\ criterion # ""
                     /\ Len(matchingSections) > 0
                     /\ SoleCandidate(filteredTestCases)
  IN  [narrowed |-> criterion # "" /\ Len(matchingSections) > 0,
       remaining |-> filteredTestCases,
       autoMatched |-> autoMatched,
       matches |-> IF autoMatched
                   THEN <<[test_id |-> filteredTestCases[1].test_id,
                           case_id |-> filteredTestCases[1].case_id,
                           confidence |-> [n |-> 1, d |-> 1],
                           reasoning |-> [from |-> "section", bug |-> "none"],
                           learned |-> FALSE]>>
                   ELSE <<>>]

\* the bug whose summary carries the title convention
FilterBug == "BUG-F"

\* answers of the model to the filtered list: none, one match, a list of one match
FilterReplies ==
  {Failure,
   [kind |-> "object", items |-> <<Entry(Str(1), TRUE, 80)>>],
   [kind |-> "list", items |-> <<Entry(Str(1), TRUE, 80)>>]}

\* findMatchesWithSectionFiltering(bugData, testCases, runId)
FindMatchesWithSectionFiltering(title, testCases, groupOk, reply) ==
  /\ prefilter = NoFilter
  /\ \E f \in {findMatchesWithSectionFiltering(title, testCases, groupOk)} :
       \E r \in {matchBugToTestCase(FilterBug, f.remaining, reply, config,
                                    loadCorrections, loadMatches)} :
         /\ ~f.autoMatched => Len(loadMatches) + Len(r.stored) <= MaxMatches
         /\ prefilter' =
              [op |-> "filter", title |-> title, testCases |-> testCases,
               groupOk |-> groupOk, narrowed |-> f.narrowed, remaining |-> f.remaining,
               autoMatched |-> f.autoMatched,
               matches |-> IF f.autoMatched THEN f.matches ELSE r.result,
               calledEngine |-> ~f.autoMatched,
               handed |-> IF f.autoMatched THEN <<>> ELSE f.remaining,
               outcome |-> IF f.autoMatched THEN "returned" ELSE r.outcome]
         /\ IF ~f.autoMatched /\ config.learningEnabled /\ Len(r.stored) > 0
            THEN /\ fileState' = [Initialized(fileState) EXCEPT !.m = "ok"]
                 /\ matches' = StoredArray(loadMatches, r.stored)
                 /\ lastOk' = [lastOk EXCEPT !.m = loadMatches]
                 /\ UNCHANGED corrections
            ELSE UNCHANGED storeVars
  /\ UNCHANGED <<handlerVars, flow, taskVars, config, call, gateVars, procVars>>

\* the caller has consumed the matches
FilterReturned ==
  /\ prefilter # NoFilter
  /\ prefilter' = NoFilter
  /\ UNCHANGED <<handlerVars, flow, taskVars, config, storeVars, call, gateVars, procVars>>

MatchesSought ==
  \E title \in Titles : \E n \in 0..MaxTests : \E testCases \in CandidateLists(n) :
    \E groupOk \in BOOLEAN : \E reply \in FilterReplies :
      FindMatchesWithSectionFiltering(title, testCases, groupOk, reply)

InitFilter ==
  /\ config \in {c \in Configs : ~c.dryRunMode /\ ~c.learningEnabled}
  /\ jiraStatus = [b \in GateBugs |-> "Ready for Dev"]
  /\ Quiet

NextFilter == MatchesSought \/ FilterReturned

SpecFilter == InitFilter /\ [][NextFilter]_vars

(***************************************************************************)
(* workflowService.js: the handlers of the webhooks, each running to        *)
(* completion, every request to JIRA and TestRail answered.                 *)
(***************************************************************************)
WorkflowBugs == {"BUG-F"}

\* config.jira.statusQueuedMerged
statusQueuedMerged == "Queued Merged to Release"

RECURSIVE Distinct(_)
\* Array.from(new Set(array)): the first occurrence of each element is kept
Distinct(s) ==
  IF s = <<>> THEN <<>>
  ELSE LET rest == Distinct(SubSeq(s, 1, Len(s) - 1))
       IN  IF s[Len(s)] \in Range(rest) THEN rest ELSE Append(rest, s[Len(s)])

\* getTestCasesByBugKey: the tests of the corrections of the bug, else of its matches
getTestCasesByBugKey(bugKey, loadedCorrections, loadedMatches) ==
  LET OfBug(record) == record.bug = bugKey
      ofCorrections == Filter(loadedCorrections, OfBug)
      ofMatches == Filter(loadedMatches, OfBug)
      fromCorrections == [i \in 1..Len(ofCorrections) |->
                            [test_id |-> ofCorrections[i].correct_test_id,
                             case_id |-> ofCorrections[i].correct_case_id]]
      fromMatches == [i \in 1..Len(ofMatches) |->
                        [test_id |-> ofMatches[i].match.test_id,
                         case_id |-> ofMatches[i].match.case_id]]
  IN  IF Len(fromCorrections) > 0 THEN Distinct(fromCorrections) ELSE Distinct(fromMatches)

\* findTestsWithBug / findAllLinkedTestIds: the tests of the run with the bug in the
\* defects of some result
findTestsWithBug(testResults, bugId) == {t \in RunTestIds : bugId \in AllBugs(testResults[t])}

RECURSIVE LinkTests(_, _, _)
\* for each test in turn: markAsFailed with the bug unless isBugAlreadyLinked
LinkTests(testResults, testIds, issueKey) ==
  IF testIds = <<>> THEN testResults
  ELSE LinkTests(IF issueKey \in AllBugs(testResults[Head(testIds)])
                 THEN testResults
                 ELSE [testResults EXCEPT
                         ![Head(testIds)] = addResult(@, statusFailed, {issueKey})],
                 Tail(testIds), issueKey)

RECURSIVE PassTests(_, _, _)
\* for each test in turn: markTestAsPassedIntelligently with no lookup failing
PassTests(testResults, testIds, issueKey) ==
  IF testIds = <<>> THEN testResults
  ELSE PassTests(IF markTestAsPassedIntelligently(testResults[Head(testIds)],
                                                  issueKey, {}).write
                 THEN [testResults EXCEPT ![Head(testIds)] = addResult(@, statusPassed, {})]
                 ELSE testResults,
                 Tail(testIds), issueKey)

\* the tests whose newest result is Passed
NewestPassed(testResults, testIds) ==
  {t \in testIds : Len(testResults[t]) > 0 /\ testResults[t][1].status_id = statusPassed}

\* the ids of the tests the store links to the bug
StoreLinked(bugKey) ==
  {toString(t.test_id) : t \in Range(getTestCasesByBugKey(bugKey, loadCorrections,
                                                          loadMatches))}

\* answers of the model to the tests of the run: none, one of them, or both
WorkflowReplies ==
  {Failure,
   [kind |-> "object", items |-> <<Entry(Str(1), TRUE, 80)>>],
   [kind |-> "object", items |-> <<Entry(Str(2), TRUE, 80)>>],
   [kind |-> "list", items |-> <<Entry(Str(1), TRUE, 90), Entry(Str(2), TRUE, 80)>>]}

\* handleBugCreated(issueKey): the matches of the engine are stored and each matched
\* test is marked Failed with the bug unless a result of it carries the bug
HandleBugCreated(issueKey, reply) ==
  \E r \in {matchBugToTestCase(issueKey, RunTests(Issue(issueKey).run), reply, config,
                               loadCorrections, loadMatches)} :
    \E ids \in {IF r.outcome = "returned"
                THEN [i \in 1..Len(r.result) |-> toString(r.result[i].test_id)]
                ELSE <<>>} :
      /\ Len(loadMatches) + Len(r.stored) <= MaxMatches
      /\ results' = LinkTests(results, ids, issueKey)
      /\ \A t \in RunTestIds : Len(results'[t]) <= MaxResults
      /\ IF config.learningEnabled /\ Len(r.stored) > 0
         THEN /\ fileState' = [Initialized(fileState) EXCEPT !.m = "ok"]
              /\ matches' = StoredArray(loadMatches, r.stored)
              /\ lastOk' = [lastOk EXCEPT !.m = loadMatches]
              /\ UNCHANGED corrections
         ELSE UNCHANGED storeVars
      /\ flow' = [op |-> "created", bug |-> issueKey, from |-> jiraStatus[issueKey],
                  named |-> Range(ids), linkedBefore |-> StoreLinked(issueKey),
                  previous |-> findTestsWithBug(results, issueKey),
                  passedBefore |-> NewestPassed(results, findTestsWithBug(results, issueKey)),
                  success |-> r.outcome = "returned"]
      /\ UNCHANGED <<handlerVars, prefilter, taskVars, config, call, gate, lastPass, procVars>>

\* handleBugResolved(issueKey): the pass transition for every test findTestsWithBug finds
HandleBugResolved(issueKey) ==
  \E testIds \in {findTestsWithBug(results, issueKey)} :
    /\ results' = PassTests(results, SelectSeqIdx(testIds, MaxTests), issueKey)
    /\ \A t \in RunTestIds : Len(results'[t]) <= MaxResults
    /\ flow' = [op |-> "resolved", bug |-> issueKey, from |-> jiraStatus[issueKey],
                named |-> {}, linkedBefore |-> StoreLinked(issueKey),
                previous |-> testIds, passedBefore |-> NewestPassed(results, testIds),
                success |-> testIds # {}]
    /\ UNCHANGED <<handlerVars, prefilter, taskVars, config, storeVars, call, gate, lastPass,
                   procVars>>

\* the case ids of a correction comment: C101, C102, both, or a case not in the run
CaseIdLists == {<<101>>, <<102>>, <<101, 102>>, <<999>>}

\* handleCorrection(issueKey, comment): CORRECT: or ADD: followed by case ids; a
\* correction is stored for each test found and the test is marked Failed with the bug
\* unless a result of it carries the bug
HandleCorrection(issueKey, addMode, correctCaseIds) ==
  LET tests == RunTests(Issue(issueKey).run)
      InRun(caseId) == \E i \in 1..Len(tests) : toString(tests[i].case_id) = caseId
      found == Filter(correctCaseIds, InRun)
      correctTests == [k \in 1..Len(found) |->
                         tests[CHOOSE i \in 1..Len(tests) :
                                 toString(tests[i].case_id) = found[k]]]
      ids == [k \in 1..Len(correctTests) |-> toString(correctTests[k].test_id)]
      stored == [k \in 1..Len(correctTests) |->
                   [bug |-> issueKey,
                    correct_test_id |-> Str(toString(correctTests[k].test_id)),
                    correct_case_id |-> correctTests[k].case_id]]
  IN  /\ Len(loadCorrections) + Len(correctTests) <= MaxCorrections
      /\ results' = LinkTests(results, ids, issueKey)
      /\ \A t \in RunTestIds : Len(results'[t]) <= MaxResults
      /\ IF config.learningEnabled /\ Len(correctTests) > 0
         THEN /\ fileState' = [Initialized(fileState) EXCEPT !.c = "ok"]
              /\ corrections' = StoredArray(loadCorrections, stored)
              /\ lastOk' = [lastOk EXCEPT !.c = loadCorrections]
              /\ UNCHANGED matches
         ELSE UNCHANGED storeVars
      /\ flow' = [op |-> IF addMode THEN "add" ELSE "correct", bug |-> issueKey,
                  from |-> jiraStatus[issueKey], named |-> Range(ids),
                  linkedBefore |-> StoreLinked(issueKey),
                  previous |-> findTestsWithBug(results, issueKey),
                  passedBefore |-> NewestPassed(results, findTestsWithBug(results, issueKey)),
                  success |-> Len(correctTests) > 0]
      /\ UNCHANGED <<prefilter, taskVars, config, call, jiraStatus, gate, lastPass, procVars>>

\* processWebhook: the status of the bug changed to Ready for Dev
BugReadyForDev ==
  \E issueKey \in WorkflowBugs : \E reply \in WorkflowReplies :
    /\ jiraStatus[issueKey] # statusReadyForDev
    /\ jiraStatus' = [jiraStatus EXCEPT ![issueKey] = statusReadyForDev]
    /\ HandleBugCreated(issueKey, reply)

\* processWebhook: the status of the bug changed to Queued Merged to Release
BugQueuedMerged ==
  \E issueKey \in WorkflowBugs :
    /\ jiraStatus[issueKey] # statusQueuedMerged
    /\ jiraStatus' = [jiraStatus EXCEPT ![issueKey] = statusQueuedMerged]
    /\ HandleBugResolved(issueKey)

\* processWebhook / the correction endpoint: a correction comment on the bug
BugCorrected ==
  \E issueKey \in WorkflowBugs : \E addMode \in BOOLEAN :
    \E correctCaseIds \in CaseIdLists :
      /\ HandleCorrection(issueKey, addMode, correctCaseIds)
      /\ UNCHANGED handlerVars

InitWorkflow ==
  /\ config \in {c \in Configs : ~c.dryRunMode}
  /\ jiraStatus = [b \in GateBugs |-> statusOpen]
  /\ Quiet

NextWorkflow == BugReadyForDev \/ BugQueuedMerged \/ BugCorrected

SpecWorkflow == InitWorkflow /\ [][NextWorkflow]_vars

(***************************************************************************)
(* Properties of the section filter.                                       *)
(***************************************************************************)
\* the invocation returned an automatic match as the code builds it
AutoMatchShape ==
  /\ prefilter.outcome = "returned"
  /\ ~prefilter.calledEngine
  /\ Len(prefilter.matches) = 1
  /\ prefilter.matches[1].confidence = [n |-> 1, d |-> 1]
  /\ prefilter.matches[1].test_id = prefilter.remaining[1].test_id

\* without an automatic match the engine is called with the remaining candidates
EngineShape ==
  /\ prefilter.calledEngine
  /\ prefilter.handed = prefilter.remaining

\* C11 as stated: the filter returns an automatic match (confidence 1.0, no model
\* call) if and only if exactly one candidate remains after the section filter;
\* otherwise it hands the remaining candidates to the matching engine.  Read on
\* the invocations that extracted a criterion and grouped the run by section.
AutoMatchIffOneRemains ==
  (/\ prefilter.op = "filter"
   /\ prefilter.groupOk
   /\ extractCriterionFromTitle(prefilter.title) # "") =>
    /\ prefilter.autoMatched <=> Len(prefilter.remaining) = 1
    /\ prefilter.autoMatched => AutoMatchShape
    /\ ~prefilter.autoMatched => EngineShape

\* C11 amended: the filter returns an automatic match (confidence 1.0, no model
\* call) if and only if some section name contains the criterion of the title and
\* the matching sections hold exactly one test; otherwise, also when the whole run
\* has a single test, it hands the remaining candidates to the matching engine.
AutoMatchIffNarrowedToOne ==
  prefilter.op = "filter" =>
    /\ prefilter.autoMatched <=> (prefilter.narrowed /\ Len(prefilter.remaining) = 1)
    /\ prefilter.autoMatched => AutoMatchShape
    /\ ~prefilter.autoMatched => EngineShape

\* a run of several tests was narrowed to one test, which was matched automatically
AutoMatchIffNarrowedToOneCase ==
  /\ prefilter.op = "filter"
  /\ prefilter.autoMatched
  /\ Len(prefilter.testCases) > 1
  /\ Len(prefilter.remaining) = 1

\* C12: the list handed to the matching engine is not empty when the run has
\* tests; when grouping fails, or no section name contains the criterion, the
\* candidates are the whole run.
HandedListNotEmpty ==
  prefilter.op = "filter" =>
    /\ (prefilter.calledEngine /\ Len(prefilter.testCases) > 0) => Len(prefilter.handed) > 0
    /\ (~prefilter.groupOk \/ ~prefilter.narrowed) =>
         prefilter.remaining = prefilter.testCases

\* a criterion was extracted, no section of the run contains it, the engine was called
HandedListNotEmptyCase ==
  /\ prefilter.op = "filter"
  /\ prefilter.calledEngine
  /\ extractCriterionFromTitle(prefilter.title) # ""
  /\ ~prefilter.narrowed
  /\ Len(prefilter.handed) > 1

(***************************************************************************)
(* Properties of what the matching engine returns.                         *)
(***************************************************************************)
\* the entries of a multi-match answer that name a candidate with its case at or
\* above the multi-match threshold
KeptEntries ==
  {i \in 1..Len(call.reply.items) :
     /\ ~Falsy(call.reply.items[i].test_id)
     /\ ~Falsy(call.reply.items[i].case_id)
     /\ toString(call.reply.items[i].test_id) \in CandidateIds(call.testCases)
     /\ call.reply.items[i].confidence >= multiMatchThreshold}

\* C13: an invocation of the engine that returns never returns an empty list; in
\* multi-match mode an answer of the model that leaves no match after validation,
\* threshold and deduplication (the empty list among them) ends in an error.
NeverReturnsEmpty ==
  call.op = "match" =>
    /\ call.outcome = "returned" => Len(call.result) > 0
    /\ (/\ config.enableMultiMatch
        /\ call.usedModel
        /\ call.reply.kind = "list"
        /\ KeptEntries = {}) => call.outcome = "error"

\* in multi-match mode the model answered with matches none of which is kept
NeverReturnsEmptyCase ==
  /\ call.op = "match"
  /\ config.enableMultiMatch
  /\ call.usedModel
  /\ call.reply.kind = "list"
  /\ Len(call.reply.items) > 0
  /\ KeptEntries = {}
  /\ call.outcome = "error"

(***************************************************************************)
(* Properties of the workflow handlers.                                    *)
(***************************************************************************)
\* the newest result of the test is Failed and carries the bug
NewestFailedWith(t, bugKey) ==
  /\ Len(results[t]) > 0
  /\ results[t][1].status_id = statusFailed
  /\ bugKey \in results[t][1].defects

\* the newest result of the test is Passed and does not carry the bug
NewestPassedWithout(t, bugKey) ==
  /\ Len(results[t]) > 0
  /\ results[t][1].status_id = statusPassed
  /\ bugKey \notin results[t][1].defects

\* C14: with learning enabled, after a CORRECT instruction that found its tests,
\* getTestCasesByBugKey returns exactly the tests the instruction named: none that
\* only an earlier MatchRecord names, none of an earlier correction.
CorrectReplacesLinks ==
  (flow.op = "correct" /\ flow.success /\ config.learningEnabled) =>
    StoreLinked(flow.bug) = flow.named

\* C15: with learning enabled, after an ADD instruction getTestCasesByBugKey returns
\* the tests linked before together with the tests named, and after a CORRECT
\* instruction only the tests named.
AddAugmentsCorrectReplaces ==
  (flow.op \in {"add", "correct"} /\ flow.success /\ config.learningEnabled) =>
    StoreLinked(flow.bug) = IF flow.op = "add"
                            THEN flow.linkedBefore \cup flow.named
                            ELSE flow.named

\* C16: after a CORRECT instruction every test the bug was linked to that is not
\* named has a newest result Passed without the bug, and every named test has a
\* newest result Failed with the bug.
CorrectMovesResults ==
  (flow.op = "correct" /\ flow.success) =>
    /\ \A t \in flow.previous \ flow.named : NewestPassedWithout(t, flow.bug)
    /\ \A t \in flow.named : NewestFailedWith(t, flow.bug)

\* C17: when a bug whose tests were marked Passed on resolution moves back to
\* Ready for Dev, and the engine names those tests again, every one of them has a
\* newest result Failed with the bug once the event is processed.
ReopenedBugFailsTests ==
  (/\ flow.op = "created"
   /\ flow.from = statusQueuedMerged
   /\ flow.success
   /\ flow.passedBefore # {}
   /\ flow.passedBefore \subseteq flow.named) =>
    \A t \in flow.passedBefore : NewestFailedWith(t, flow.bug)

(***************************************************************************)
(* handleBugCreated invocations running concurrently: the server does not  *)
(* wait for processWebhook, and each await lets another invocation run.    *)
(***************************************************************************)
\* handleBugCreated up to its loop over the matches, the engine having answered
CreateBegun(h, issueKey, reply) ==
  /\ hand[h].pc = "idle"
  /\ \E r \in {matchBugToTestCase(issueKey, RunTests(Issue(issueKey).run), reply, config,
                                  loadCorrections, loadMatches)} :
       /\ r.outcome = "returned"
       /\ Len(loadMatches) + Len(r.stored) <= MaxMatches
       /\ hand' = [hand EXCEPT ![h] =
                     [pc |-> "check", bug |-> issueKey,
                      testIds |-> [i \in 1..Len(r.result) |-> toString(r.result[i].test_id)],
                      alreadyLinked |-> FALSE]]
       /\ IF config.learningEnabled /\ Len(r.stored) > 0
          THEN /\ fileState' = [Initialized(fileState) EXCEPT !.m = "ok"]
               /\ matches' = StoredArray(loadMatches, r.stored)
               /\ lastOk' = [lastOk EXCEPT !.m = loadMatches]
               /\ UNCHANGED corrections
          ELSE UNCHANGED storeVars
  /\ UNCHANGED <<handlerVars, prefilter, flow, engine, lookup, config, call, gateVars, procVars>>

\* await testRailService.isBugAlreadyLinked(match.test_id, issueKey)
LinkChecked(h) ==
  /\ hand[h].pc = "check"
  /\ hand' = [hand EXCEPT
                ![h].alreadyLinked = isBugAlreadyLinked(Head(hand[h].testIds), hand[h].bug, TRUE),
                ![h].pc = "post"]
  /\ UNCHANGED <<handlerVars, prefilter, flow, engine, lookup, config, storeVars, call, gateVars,
               procVars>>

\* the branch on alreadyLinked: skip, or await testRailService.markAsFailed; then the
\* next match
LinkPosted(h) ==
  /\ hand[h].pc = "post"
  /\ ~hand[h].alreadyLinked => Len(results[Head(hand[h].testIds)]) < MaxResults
  /\ results' = IF hand[h].alreadyLinked THEN results
                ELSE [results EXCEPT
                        ![Head(hand[h].testIds)] = addResult(@, statusFailed, {hand[h].bug})]
  /\ hand' = [hand EXCEPT ![h].testIds = Tail(@),
                          ![h].alreadyLinked = FALSE,
                          ![h].pc = IF Len(hand[h].testIds) > 1 THEN "check" ELSE "done"]
  /\ UNCHANGED <<handlerVars, prefilter, flow, engine, lookup, config, storeVars, call, jiraStatus, gate,
                 lastPass, procVars>>

\* the invocation returns
CreateReturned(h) ==
  /\ hand[h].pc = "done"
  /\ hand' = [hand EXCEPT ![h] = NoHand]
  /\ UNCHANGED <<handlerVars, prefilter, flow, engine, lookup, config, storeVars, call, gateVars,
               procVars>>

InitLink ==
  /\ config \in {c \in Configs : ~c.dryRunMode /\ ~c.learningEnabled}
  /\ jiraStatus = [b \in GateBugs |-> statusReadyForDev]
  /\ Quiet

NextLink ==
  \/ \E h \in Handlers : \E issueKey \in WorkflowBugs : \E reply \in WorkflowReplies :
       CreateBegun(h, issueKey, reply)
  \/ \E h \in Handlers : LinkChecked(h)
  \/ \E h \in Handlers : LinkPosted(h)
  \/ \E h \in Handlers : CreateReturned(h)

SpecLink == InitLink /\ [][NextLink]_vars

\* the results of the test that are Failed and carry the bug
FailedWith(t, bugKey) ==
  {i \in 1..Len(results[t]) :
     results[t][i].status_id = statusFailed /\ bugKey \in results[t][i].defects}

\* C18: in every interleaving of handleBugCreated invocations for the same bug, with
\* every request to TestRail answered, no test has two Failed results that carry
\* the bug.
NoSecondFailedResult ==
  \A t \in RunTestIds : \A bugKey \in WorkflowBugs : Cardinality(FailedWith(t, bugKey)) <= 1

(***************************************************************************)
(* aiService.js: matchBugToTestCase waiting for the model.  The request is  *)
(* raced against a timer of 120 seconds; the model may never answer, the    *)
(* timer of the event loop always fires.                                    *)
(***************************************************************************)
\* a bare await of the request: only an answer settles it
AwaitAnswer(answered, timedOut) == answered

\* Promise.race([create(...), timeout]): the first of the two settles it
PromiseRace(answered, timedOut) == answered \/ timedOut

\* matchBugToTestCase up to the request to the model
EngineCalled(bugKey) ==
  /\ engine.pc = "idle"
  /\ \E r \in {matchBugToTestCase(bugKey, RunTests(Issue(bugKey).run), Failure, config,
                                  loadCorrections, loadMatches)} :
       engine' = IF r.usedModel
                 THEN [NoEngine EXCEPT !.pc = "waiting", !.bug = bugKey, !.calls = 1]
                 ELSE [NoEngine EXCEPT !.pc = "returned", !.bug = bugKey,
                                       !.outcome = r.outcome, !.result = r.result]
  /\ UNCHANGED <<handlerVars, prefilter, flow, hand, lookup, config, storeVars, call, gateVars,
               procVars>>

\* the model answers (or the request fails) before the timer: the rest of
\* matchBugToTestCase with its storeMatch calls
ModelAnswers(reply) ==
  /\ engine.pc = "waiting"
  /\ PromiseRace(TRUE, FALSE)
  /\ \E r \in {matchBugToTestCase(engine.bug, RunTests(Issue(engine.bug).run), reply,
                                  config, loadCorrections, loadMatches)} :
       /\ Len(loadMatches) + Len(r.stored) <= MaxMatches
       /\ engine' = [engine EXCEPT
                       !.pc = IF r.outcome = "returned" THEN "returned" ELSE "failed",
                       !.outcome = r.outcome, !.result = r.result, !.stored = r.stored]
       /\ IF config.learningEnabled /\ Len(r.stored) > 0
          THEN /\ fileState' = [Initialized(fileState) EXCEPT !.m = "ok"]
               /\ matches' = StoredArray(loadMatches, r.stored)
               /\ lastOk' = [lastOk EXCEPT !.m = loadMatches]
               /\ UNCHANGED corrections
          ELSE UNCHANGED storeVars
  /\ UNCHANGED <<handlerVars, prefilter, flow, hand, lookup, config, call, gateVars, procVars>>

\* the timer fires first: reject(new Error('OpenAI API timeout after 120 seconds')),
\* logged and thrown again by the catch
TimerFires ==
  /\ engine.pc = "waiting"
  /\ PromiseRace(FALSE, TRUE)
  /\ engine' = [engine EXCEPT !.pc = "failed", !.timedOut = TRUE, !.outcome = "error"]
  /\ UNCHANGED <<handlerVars, prefilter, flow, hand, lookup, config, storeVars, call, gateVars,
               procVars>>

\* the caller has the result or the error
EngineReturned ==
  /\ engine.pc \in {"returned", "failed"}
  /\ engine' = NoEngine
  /\ UNCHANGED <<handlerVars, prefilter, flow, hand, lookup, config, storeVars, call, gateVars,
               procVars>>

NextTimeout ==
  \/ \E bugKey \in GateBugs : EngineCalled(bugKey)
  \/ \E reply \in WorkflowReplies : ModelAnswers(reply)
  \/ TimerFires
  \/ EngineReturned

SpecTimeout == Init /\ [][NextTimeout]_vars /\ WF_vars(TimerFires)

\* C19: every invocation of matchBugToTestCase that waits for the model ends; when
\* the timer of 120 seconds fires first the invocation fails with an error, has
\* made one request to the model, returns no match and stores no MatchRecord.
EngineTerminates ==
  /\ [](engine.timedOut =>
          /\ engine.pc = "failed"
          /\ engine.outcome = "error"
          /\ engine.calls = 1
          /\ engine.result = <<>>
          /\ engine.stored = <<>>)
  /\ [][(engine'.timedOut /\ ~engine.timedOut) =>
          (matches' = matches /\ fileState' = fileState)]_vars
  /\ (engine.pc = "waiting") ~> (engine.pc \in {"returned", "failed"})

\* the timer fired while the invocation was waiting for the model
EngineTerminatesCase == engine.timedOut /\ engine.pc = "failed" /\ engine.calls = 1

(***************************************************************************)
(* workflowService.js: the pass transition waiting for the status lookups   *)
(* of getActiveBugs.  jiraService.getIssue awaits axios.get, which is given *)
(* no timeout: JIRA may answer, fail, or never answer.                      *)
(***************************************************************************)
\* markTestAsPassedIntelligently up to the first lookup of getActiveBugs
PassBegun(testId, removedBugId) ==
  /\ lookup.pc = "idle"
  /\ removedBugId \in AllBugs(results[testId])
  /\ \E allOtherBugs \in {AllBugs(results[testId]) \ {removedBugId}} :
       \E write \in {~AlreadyPassed(results[testId][1]) /\ allOtherBugs = {}} :
         /\ Len(results[testId]) < MaxResults
         /\ results' = IF write
                       THEN [results EXCEPT ![testId] = addResult(@, statusPassed, {})]
                       ELSE results
         /\ lookup' = IF AlreadyPassed(results[testId][1]) \/ allOtherBugs = {}
                      THEN [NoLookup EXCEPT !.pc = "done", !.test = testId,
                                            !.bug = removedBugId, !.status = "Passed",
                                            !.appended = write]
                      ELSE [NoLookup EXCEPT !.pc = "waiting", !.test = testId,
                                            !.bug = removedBugId, !.todo = allOtherBugs]
  /\ UNCHANGED <<handlerVars, prefilter, flow, hand, engine, config, storeVars, call, jiraStatus, gate,
                 lastPass, procVars>>

\* jiraService.getIssue(bugId) answers with the issue, or throws
LookupAnswered(bugId, ok) ==
  /\ lookup.pc = "waiting"
  /\ bugId \in lookup.todo
  /\ lookup' = [lookup EXCEPT
                  !.todo = @ \ {bugId},
                  !.activeBugs = @ \cup getActiveBugs({bugId}, IF ok THEN {} ELSE {bugId})]
  /\ UNCHANGED <<handlerVars, prefilter, flow, hand, engine, config, storeVars, call, gateVars,
               procVars>>

\* markTestAsPassedIntelligently after getActiveBugs returned
PassCompleted ==
  /\ lookup.pc = "waiting"
  /\ lookup.todo = {}
  /\ results' = IF lookup.activeBugs = {}
                THEN [results EXCEPT ![lookup.test] = addResult(@, statusPassed, {})]
                ELSE results
  /\ lookup' = [lookup EXCEPT
                  !.pc = "done",
                  !.status = IF lookup.activeBugs = {} THEN "Passed" ELSE "Failed",
                  !.appended = lookup.activeBugs = {}]
  /\ UNCHANGED <<handlerVars, prefilter, flow, hand, engine, config, storeVars, call, jiraStatus, gate,
                 lastPass, procVars>>

\* handleBugResolved has the result
PassReturned ==
  /\ lookup.pc = "done"
  /\ lookup' = NoLookup
  /\ UNCHANGED <<handlerVars, prefilter, flow, hand, engine, config, storeVars, call, gateVars,
               procVars>>

NextLookup ==
  \/ lookup.pc = "idle" /\ BugCreated
  \/ lookup.pc = "idle" /\ BugMoved
  \/ \E testId \in TestIds : \E removedBugId \in GateBugs : PassBegun(testId, removedBugId)
  \/ \E bugId \in GateBugs : \E ok \in BOOLEAN : LookupAnswered(bugId, ok)
  \/ PassCompleted
  \/ PassReturned

SpecLookup == InitGate /\ [][NextLookup]_vars /\ WF_vars(PassCompleted)

\* C20: a pass transition that waits for the status lookups of the other defects
\* completes, whether or not JIRA answers.
GateCompletes == (lookup.pc = "waiting") ~> (lookup.pc = "done")

(***************************************************************************)
(* Properties of the readers of the learning store.                        *)
(***************************************************************************)
\* C21: every findSimilarMatch / findSimilarMatches call is given all the corrections whose
\* storeCorrection had returned before the call started, also while other calls write.
ReaderSeesReturnedCorrections ==
  (config.learningEnabled /\ observed.file = "c") =>
    observed.returned \subseteq Range(observed.records)

(***************************************************************************)
(* workflowService.js: the pass transition called for any test and bug,    *)
(* also a test that has no result yet.                                     *)
(***************************************************************************)
NextPass ==
  \/ BugCreated
  \/ BugMoved
  \/ \E testId \in TestIds : \E bugId \in GateBugs : \E fetchOk, postOk \in BOOLEAN :
       \E failed \in Failures :
         MarkTestAsPassedIntelligently(testId, bugId, fetchOk, failed, postOk)
  \/ GateReturned

SpecPass == InitGate /\ [][NextPass]_vars

\* the results the test of the call had when the call started
HistoryBefore ==
  IF gate.appended THEN Tail(results[gate.test]) ELSE results[gate.test]

\* C22: for a test with no result history, the pass transition takes the test from
\* no-history to passing by appending a Passed result (the call read the history, no dry
\* run, no failed request).
FirstPassSynthesized ==
  (/\ gate.op = "mark"
   /\ gate.fetchOk
   /\ ~gate.threw
   /\ ~config.dryRunMode
   /\ HistoryBefore = <<>>) =>
    /\ gate.appended
    /\ results[gate.test] = <<[status_id |-> statusPassed, defects |-> {}]>>

(***************************************************************************)
(* Properties of the use the engine makes of learned matches.              *)
(***************************************************************************)
\* the learned matches of the call whose test is among the candidates of the call
ValidLearned ==
  {i \in 1..Len(call.learnedMatches) :
     toString(call.learnedMatches[i].test_id) \in CandidateIds(call.testCases)}

\* C23: in multi-match mode learned matches are used all-or-nothing: they are returned,
\* without a model call, only if the test of every learned match is among the current
\* candidates; if only some or none are, all of them are discarded and the returned list
\* holds only model matches, never a mix of learned and model matches.
LearnedAllOrNothing ==
  (call.op = "match" /\ config.enableMultiMatch) =>
    /\ ~call.usedModel =>
         /\ Len(call.learnedMatches) > 0
         /\ ValidLearned = 1..Len(call.learnedMatches)
         /\ call.outcome = "returned"
         /\ call.result = call.learnedMatches
    /\ ValidLearned # 1..Len(call.learnedMatches) =>
         /\ call.usedModel
         /\ \A k \in 1..Len(call.result) :
              /\ call.result[k].reasoning.from = "model"
              /\ ~call.result[k].learned

\* some but not all learned matches were valid and the model's matches were returned
LearnedAllOrNothingCase ==
  /\ call.op = "match"
  /\ config.enableMultiMatch
  /\ ValidLearned # {}
  /\ ValidLearned # 1..Len(call.learnedMatches)
  /\ call.outcome = "returned"
  /\ Len(call.result) > 0

(***************************************************************************)
(* Properties of the engine in single-match mode.                          *)
(***************************************************************************)
\* the model was asked in single-match mode and answered
AnsweredSingle ==
  /\ call.op = "match"
  /\ ~config.enableMultiMatch
  /\ call.usedModel
  /\ call.reply.kind # "failure"

\* the answer lacks test_id or case_id (an answer that is a matches array has neither),
\* or its test_id is not the test_id of a candidate
InvalidAnswer ==
  \/ call.reply.kind = "list"
  \/ Falsy(call.reply.items[1].test_id)
  \/ Falsy(call.reply.items[1].case_id)
  \/ toString(call.reply.items[1].test_id) \notin CandidateIds(call.testCases)

\* C24: in single-match mode, when the model's answer lacks test_id or case_id, or names a
\* test_id that is not among the candidates, matchBugToTestCase fails with an error,
\* returns no match and leaves the match store unchanged.
InvalidSingleAnswerFails ==
  [][(call = NoCall /\ (AnsweredSingle /\ InvalidAnswer)') =>
       /\ call'.outcome = "error"
       /\ call'.result = <<>>
       /\ call'.stored = <<>>
       /\ matches' = matches
       /\ fileState' = fileState]_vars

\* the call failed on an answer naming a test that is no candidate, with learning enabled
\* and a match already in the store
InvalidSingleAnswerFailsCase ==
  /\ AnsweredSingle
  /\ call.reply.kind = "object"
  /\ ~Falsy(call.reply.items[1].test_id)
  /\ ~Falsy(call.reply.items[1].case_id)
  /\ InvalidAnswer
  /\ call.outcome = "error"
  /\ config.learningEnabled
  /\ Len(loadMatches) > 0

(***************************************************************************)
(* workflowService.js: handleCorrection from the text of the comment on.   *)
(* A comment is the sequence of its words, separated by blanks.            *)
(***************************************************************************)
MaxComment == 3

\* the words of the comments: the keywords, case ids with and without the C prefix (101 and
\* 102 are cases of the run, 999 is not), the comma and another word
CommentWords == {"CORRECT:", "add:", "C101", "c102", "999", ",", "test"}

\* String.prototype.toUpperCase on the words of a comment
toUpperCase(w) ==
  CASE w = "add:" -> "ADD:"
    [] w = "c102" -> "C102"
    [] w = "test" -> "TEST"
    [] OTHER -> w

\* id.trim().replace(/^C/i, '') on a word, as the number toString() of a case_id equals
\* (0: the empty string)
StripC(w) ==
  CASE w = "C101" -> 101
    [] w = "c102" -> 102
    [] w = "999" -> 999
    [] OTHER -> 0

\* the part of a word the class [C\d,\s] of caseIdPattern matches from its start on
ClassPrefix(w) ==
  IF w \in {"C101", "c102", "999", ","} THEN w
  ELSE IF w = "CORRECT:" THEN "C"
  ELSE ""

\* a pattern that starts at any word
AnyWordMatches(w, keyword) == TRUE

\* the word is the keyword and its colon (the pattern has the flag i)
KeywordMatches(w, keyword) == toUpperCase(w) = keyword

RECURSIVE GroupFrom(_, _)
\* match[1]: the words from position j on that ([C\d,\s]+) takes
GroupFrom(comment, j) ==
  IF j > Len(comment) THEN <<>>
  ELSE LET piece == ClassPrefix(comment[j])
       IN  IF piece = comment[j] THEN <<piece>> \o GroupFrom(comment, j + 1)
           ELSE IF piece = "" THEN <<>>
           ELSE <<piece>>

RECURSIVE SplitByComma(_, _)
\* match[1].split(','): the words between the commas; current is the part being read
SplitByComma(group, current) ==
  IF group = <<>> THEN <<current>>
  ELSE IF Head(group) = ","
       THEN <<current>> \o SplitByComma(Tail(group), <<>>)
       ELSE SplitByComma(Tail(group), Append(current, Head(group)))

\* the id of one part: the number of its only word, 0 for the empty string, and -1 for a
\* part of several words (a string with a blank in it, which is the id of no case)
PartId(part) ==
  IF Len(part) = 0 THEN 0
  ELSE IF Len(part) = 1 THEN StripC(part[1])
  ELSE -1

\* handleCorrection up to correctCaseIds: addMode, whether the pattern matched, the ids
ParseCorrection(comment) ==
  LET addMode == \E i \in 1..Len(comment) : toUpperCase(comment[i]) = "ADD:"
      keyword == IF addMode THEN "ADD:" ELSE "CORRECT:"
      starts == {i \in 1..(Len(comment) - 1) : KeywordMatches(comment[i], keyword)}
      first == CHOOSE i \in starts : \A k \in starts : i <= k
      parts == SplitByComma(GroupFrom(comment, first + 1), <<>>)
      ids == [k \in 1..Len(parts) |-> PartId(parts[k])]
      NotEmpty(id) == id # 0
  IN  [addMode |-> addMode,
       matched |-> starts # {},
       correctCaseIds |-> IF starts = {} THEN <<>> ELSE Filter(ids, NotEmpty)]

Comments == SeqsUpTo(CommentWords, MaxComment)

\* handleCorrection(issueKey, comment): the two early returns, then the handler; the
\* comment of the success path is the only addComment of the handler
CorrectionRequested(issueKey, comment) ==
  /\ correcting = NoCorrection
  /\ UNCHANGED reopening
  /\ \E p \in {ParseCorrection(comment)} :
       IF p.matched /\ Len(p.correctCaseIds) > 0
       THEN /\ HandleCorrection(issueKey, p.addMode, p.correctCaseIds)
            /\ correcting' = [op |-> "correction", comment |-> comment,
                              success |-> flow'.success, posted |-> flow'.success]
       ELSE /\ correcting' = [op |-> "correction", comment |-> comment,
                              success |-> FALSE, posted |-> FALSE]
            /\ UNCHANGED <<prefilter, flow, taskVars, config, storeVars, call, gateVars,
                           procVars>>

\* the caller has consumed what handleCorrection returned
CorrectionReturned ==
  /\ correcting # NoCorrection
  /\ correcting' = NoCorrection
  /\ UNCHANGED <<reopening, prefilter, flow, taskVars, config, storeVars, call, gateVars,
                 procVars>>

NextComment ==
  \/ \E issueKey \in WorkflowBugs : \E comment \in Comments :
       CorrectionRequested(issueKey, comment)
  \/ CorrectionReturned

\* learning enabled, so that a correction that is accepted is stored
InitComment ==
  /\ config = [enableMultiMatch |-> FALSE, learningEnabled |-> TRUE, dryRunMode |-> FALSE]
  /\ jiraStatus = [b \in GateBugs |-> statusOpen]
  /\ Quiet

SpecComment == InitComment /\ [][NextComment]_vars

\* the words that are case ids, and those of cases of the run
CaseWords == {"C101", "c102", "999"}
CasesOfRun == {"C101", "c102"}

\* the comment has CORRECT: or ADD: (in any case) followed by case ids and commas, at least
\* one case id among them
HasFormat(comment) ==
  \E k \in 1..Len(comment) : \E j \in (k + 1)..Len(comment) :
    /\ toUpperCase(comment[k]) \in {"CORRECT:", "ADD:"}
    /\ comment[j] \in CaseWords
    /\ \A m \in (k + 1)..j : comment[m] \in CaseWords \cup {","}

NamesCaseOfRun(comment) == \E j \in 1..Len(comment) : comment[j] \in CasesOfRun

\* C25: handleCorrection on a comment that matches neither CORRECT: <ids> nor ADD: <ids>,
\* or that names no case present in the run, returns a failure result and changes
\* nothing: no correction is stored, no test result is appended, no comment is posted.
MalformedCorrectionRejected ==
  [][(/\ correcting = NoCorrection
      /\ correcting'.op = "correction"
      /\ ~HasFormat(correcting'.comment) \/ ~NamesCaseOfRun(correcting'.comment)) =>
       /\ ~correcting'.success
       /\ ~correcting'.posted
       /\ UNCHANGED <<results, storeVars>>]_vars

\* a correction in the right format that names a case that is not in the run was
\* rejected, the bug being linked to a test already
MalformedCorrectionRejectedCase ==
  /\ correcting.op = "correction"
  /\ HasFormat(correcting.comment)
  /\ ~NamesCaseOfRun(correcting.comment)
  /\ ~correcting.success
  /\ \E t \in RunTestIds : Len(results[t]) > 0

(***************************************************************************)
(* workflowService.js: handleBugReopened, running to completion; every     *)
(* request is answered but getResults, which may fail.                     *)
(***************************************************************************)
\* no test is skipped
NeverSkipped(testResults, issueKey) == FALSE

\* the test is skipped: its latest result is Failed and some result carries the bug
StillFailedWithBug(testResults, issueKey) ==
  /\ Len(testResults) > 0
  /\ testResults[1].status_id = 5
  /\ issueKey \in AllBugs(testResults)

RECURSIVE RefailTests(_, _, _, _)
\* the loop over the linked (or matched) tests: addResult Failed with the bug unless
\* the results fetched show the test Failed with the bug; getResults gives [] on failure
RefailTests(testResults, testIds, issueKey, fetchOk) ==
  IF testIds = <<>> THEN testResults
  ELSE RefailTests(
         IF StillFailedWithBug(IF fetchOk THEN testResults[Head(testIds)] ELSE <<>>,
                               issueKey)
         THEN testResults
         ELSE [testResults EXCEPT
                 ![Head(testIds)] = addResult(@, statusFailed, {issueKey})],
         Tail(testIds), issueKey, fetchOk)

\* handleBugReopened(issueKey, fromStatus): the tests of getTestCasesByBugKey, or those
\* the matcher returns when the store has none, are failed again
HandleBugReopened(issueKey, reply, fetchOk) ==
  /\ reopening = NoReopening
  /\ \E linkedTests \in {getTestCasesByBugKey(issueKey, loadCorrections, loadMatches)} :
       \E r \in {matchBugToTestCase(issueKey, RunTests(Issue(issueKey).run), reply,
                                    config, loadCorrections, loadMatches)} :
         \E usedMatcher \in {Len(linkedTests) = 0} :
           \E ids \in {IF ~usedMatcher
                       THEN [i \in 1..Len(linkedTests) |-> toString(linkedTests[i].test_id)]
                       ELSE IF r.outcome = "returned"
                       THEN [i \in 1..Len(r.result) |-> toString(r.result[i].test_id)]
                       ELSE <<>>} :
             /\ usedMatcher => Len(loadMatches) + Len(r.stored) <= MaxMatches
             /\ results' = RefailTests(results, ids, issueKey, fetchOk)
             /\ \A t \in RunTestIds : Len(results'[t]) <= MaxResults
             /\ IF usedMatcher /\ config.learningEnabled /\ Len(r.stored) > 0
                THEN /\ fileState' = [Initialized(fileState) EXCEPT !.m = "ok"]
                     /\ matches' = StoredArray(loadMatches, r.stored)
                     /\ lastOk' = [lastOk EXCEPT !.m = loadMatches]
                     /\ UNCHANGED corrections
                ELSE UNCHANGED storeVars
             /\ reopening' = [op |-> "reopened", bug |-> issueKey, fetchOk |-> fetchOk,
                              usedMatcher |-> usedMatcher]
  /\ UNCHANGED <<correcting, prefilter, flow, taskVars, config, call, jiraStatus, gate,
                 lastPass, procVars>>

\* the caller has consumed what handleBugReopened returned
ReopenReturned ==
  /\ reopening # NoReopening
  /\ reopening' = NoReopening
  /\ UNCHANGED <<correcting, prefilter, flow, taskVars, config, storeVars, call, gateVars,
                 procVars>>

NextReopen ==
  \/ reopening = NoReopening /\ BugReadyForDev
  \/ reopening = NoReopening /\ BugQueuedMerged
  \/ reopening = NoReopening /\ BugCorrected
  \/ \E issueKey \in WorkflowBugs : \E reply \in WorkflowReplies : \E fetchOk \in BOOLEAN :
       HandleBugReopened(issueKey, reply, fetchOk)
  \/ ReopenReturned

\* multi-match mode with learning enabled: the store links a bug to one test or several
InitReopen ==
  /\ config = [enableMultiMatch |-> TRUE, learningEnabled |-> TRUE, dryRunMode |-> FALSE]
  /\ jiraStatus = [b \in GateBugs |-> statusOpen]
  /\ Quiet

SpecReopen == InitReopen /\ [][NextReopen]_vars

\* the tests of the run the store links to the bug
LinkedInRun(bugKey) == StoreLinked(bugKey) \cap RunTestIds

\* the newest result of the test is Failed and some result of it carries the bug
FailedAndLinked(t, bugKey) ==
  /\ Len(results[t]) > 0
  /\ results[t][1].status_id = statusFailed
  /\ bugKey \in HistoryDefects(t)

\* an invocation of handleBugReopened runs in this step
Reopens == reopening = NoReopening /\ reopening'.op = "reopened"

FindSimilarMatch(bugKey) ==
  /\ call = NoCall
  /\ fileState' = Initialized(fileState)
  /\ call' = [NoCall EXCEPT !.op = "find", !.bug = bugKey,
                            !.learnedMatches = findSimilarMatch(bugKey, loadCorrections)]
  /\ UNCHANGED <<flowVars, config, corrections, matches, lastOk, gateVars, procVars>>

NextFind ==
  \/ CorrectionStored
  \/ \E bugKey \in BugKeys : FindSimilarMatch(bugKey)
  \/ CallReturned

SpecFind == Init /\ [][NextFind]_vars

\* the positions of the stored corrections whose keyword similarity to the bug is above 0.6
SimilarCorrections(bugKey) ==
  {i \in 1..Len(loadCorrections) :
     10 * KeywordScore(bugKey, loadCorrections[i].bug).n
       > 6 * KeywordScore(bugKey, loadCorrections[i].bug).d}

\* the match is the test of correction i with confidence 0.85 + 0.15 * score
IsMatchOf(match, bugKey, i) ==
  LET score == KeywordScore(bugKey, loadCorrections[i].bug)
  IN  /\ match.test_id = loadCorrections[i].correct_test_id
      /\ match.case_id = loadCorrections[i].correct_case_id
      /\ match.confidence.n * 100 * score.d
           = match.confidence.d * (85 * score.d + 15 * score.n)
      /\ 85 * match.confidence.d <= 100 * match.confidence.n
      /\ 100 * match.confidence.n <= 100 * match.confidence.d

\* C27: findSimilarMatch returns the test of the most recently stored correction among
\* those whose keyword similarity to the bug is strictly above 0.6, with confidence
\* 0.85 + 0.15 * score (hence within [0.85, 1.0]); it returns null when no correction
\* scores above 0.6, and it never changes the store.
FindReturnsNewestSimilar ==
  [][(call = NoCall /\ call'.op = "find") =>
       /\ loadCorrections' = loadCorrections
       /\ loadMatches' = loadMatches
       /\ IF SimilarCorrections(call'.bug) = {}
          THEN call'.learnedMatches = <<>>
          ELSE /\ Len(call'.learnedMatches) = 1
               /\ \E i \in SimilarCorrections(call'.bug) :
                    /\ \A k \in SimilarCorrections(call'.bug) : k <= i
                    /\ IsMatchOf(call'.learnedMatches[1], call'.bug, i)]_vars

\* two stored corrections name different tests and both score above 0.6: the test of the
\* later one was returned
FindReturnsNewestSimilarCase ==
  /\ call.op = "find"
  /\ Len(loadCorrections) = 2
  /\ SimilarCorrections(call.bug) = {1, 2}
  /\ loadCorrections[1].correct_test_id # loadCorrections[2].correct_test_id
  /\ Len(call.learnedMatches) = 1
  /\ call.learnedMatches[1].test_id = loadCorrections[2].correct_test_id

(***************************************************************************)
(* handleBugResolved and handleBugCreated invocations for the same test    *)
(* running concurrently: the server does not wait for processWebhook, and  *)
(* a bug can be linked while the pass transition waits for status lookups. *)
(***************************************************************************)
NextRace ==
  \/ BugCreated
  \/ lookup.pc = "idle" /\ BugMoved
  \/ \E testId \in TestIds : \E removedBugId \in GateBugs : PassBegun(testId, removedBugId)
  \/ \E bugId \in GateBugs : \E ok \in BOOLEAN : LookupAnswered(bugId, ok)
  \/ PassCompleted
  \/ PassReturned

SpecRace == InitGate /\ [][NextRace]_vars

\* a Passed result is appended to the test in this step
PassAppended(t) ==
  /\ Len(results'[t]) = Len(results[t]) + 1
  /\ results'[t][1].status_id = statusPassed

\* C28: under every interleaving of a Bug Resolved invocation for one bug with a Bug
\* Created invocation that links another, still-open bug to the same test, a Passed
\* result is never appended after the Failed result of a still-open bug: the newest result
\* of the test never ends up Passed while that bug is recorded in the test's history.
NoPassOverOpenBug ==
  [][\A t \in TestIds :
       PassAppended(t) =>
         \A b \in HistoryDefects(t) \ {lookup'.bug} : jiraStatus[b] # statusReadyForDev]_vars

(***************************************************************************)
(* Properties of the two classifiers of open defects.                      *)
(***************************************************************************)
\* C29: the two open-defect classifiers agree: whatever the status name of a defect and
\* its letter case, checkForOpenBugs counts the defect as open if and only if
\* getActiveBugs, the one the pass transition uses, counts it as active.
ClassifiersAgree ==
  (gate.op = "check" /\ gate.fetchOk) =>
    \A b \in Remaining : b \in gate.openBugs <=> b \in getActiveBugs({b}, gate.failed)

(***************************************************************************)
(* Properties of what handleBugResolved reports.                           *)
(***************************************************************************)
\* the comment handleBugResolved posts for a test says Already Passed or Marked as Passed:
\* result.skipped, or result.status is not 'Failed'
ReportedAsPassed(result) == result.skipped \/ result.status # "Failed"

\* C30: handleBugResolved reports a test as Passed or marked as Passed only if a Passed
\* result was appended for it in that invocation or its newest result was already Passed;
\* when the history cannot be fetched or is empty, or the resolved bug is not found in
\* it, the test is not reported as Passed (dry run off, no request of the pass
\* transition throwing).
ReportsOnlyRealPass ==
  (/\ gate.op = "mark"
   /\ ~gate.threw
   /\ ~config.dryRunMode
   /\ ReportedAsPassed(gate)) =>
    \/ gate.appended
    \/ /\ Len(results[gate.test]) > 0
       /\ results[gate.test][1].status_id = statusPassed

====
